---- MODULE Spec2Model ----
(***************************************************************************)
(* Task orchestration and resilience layer of backtest_system:             *)
(*   core/supervisor.py    Supervisor  (classification, audit log)         *)
(*   core/orchestrator.py  Orchestrator (retry loop, pipeline, finalize)   *)
(*   core/database.py      DatabaseAPI (write_log, create_task, ...)       *)
(*                                                                         *)
(* Three specifications share the definitions below:                       *)
(*   SpecSup   the Supervisor object driven through its public methods     *)
(*   SpecExec  one Orchestrator._execute_skill call, any max_retries       *)
(*   Spec      one run of run_smart_mode / run_specified_mode              *)
(***************************************************************************)
EXTENDS Integers, Sequences, FiniteSets, TLC

\* ------------------------------------------------------------------ bounds
\* largest max_retries given to one _execute_skill call in SpecExec
MaxRetriesBound == 3
\* number of log events the Supervisor harness (SpecSup) emits
MaxLogEvents == 3
\* number of tasks one Supervisor serves in SpecSup
MaxTasks == 2
\* longest step history given to _finalize_task in SpecFinalize
MaxSteps == 3
\* distinct cache keys asked for in SpecCache (the cache holds 64)
MaxKeys == 66
\* calls that repeat an earlier key in SpecCache, reads after the first in
\* SpecChunked
MaxRecalls == 1
\* days of the date range read in SpecChunked
RangeDays == 1000
\* rows the backend holds in SpecChunked
MaxRows == 2
\* requests sent through _request in SpecRequest, direct SQL calls in SpecDb
MaxRequests == 2
\* characters of a logged payload between its brackets, and the largest
\* max_log_data_chars
MaxChars == 15

\* ------------------------------------------------------- program constants
\* _execute_skill(..., max_retries: int = 3)
DEFAULT_MAX_RETRIES == 3
\* for attempt in range(3): task creation
CREATE_TASK_ATTEMPTS == 3
\* self._continuous_cache_max = 64
_continuous_cache_max == 64
\* _get_continuous_chunked(..., chunk_days: int = 365)
DEFAULT_CHUNK_DAYS == 365
\* `int(chunk_days) > 45`: a chunk that times out is split again above this size
SHRINK_ABOVE_DAYS == 45
\* `max(30, int(chunk_days) // 2)`
MIN_CHUNK_DAYS == 30

\* ------------------------------------------------------------- vocabulary
NoTask == 0
NoError == "None"
SkillNames == {"validate_data", "backtest_strategy", "backtest_portfolio", "generate_report"}
Events == {"START", "COMPLETE", "ERROR"}
ErrorKinds == {"NetworkError", "DataValidationError", "ModuleError", "Exception"}
ErrorTexts == {"e1", "e2"}
EscalateActions == {"halt", "retry", "skip"}
\* the items of a task configuration
Positions == {"p1", "p2", "p3"}

\* SkillResult.data: None, or a mapping whose "passed" list is `passed`
NoData == [present |-> FALSE, passed |-> <<>>]
DataOf(passed) == [present |-> TRUE, passed |-> passed]

\* models.SkillResult
SkillResult(success, data, error, retry, skipped, halted) ==
  [success |-> success, data |-> data, error |-> error,
   retry |-> retry, skipped |-> skipped, halted |-> halted]

Failure(error) == SkillResult(FALSE, NoData, error, FALSE, FALSE, FALSE)
MaxRetriesExceeded == Failure("Max retries exceeded")
ReturnedNone == Failure("Skill returned None")
NotFound == Failure("Skill not found")
\* the value of `result` before any _execute_skill call has returned
Unset == Failure("<unset>")

\* an exception raised by a skill: its class and str(e)
Exc(kind, text) == [kind |-> kind, text |-> text]
Exceptions == [kind : ErrorKinds, text : ErrorTexts]

\* ---------------------------------------------------- append-only sinks
\* An append-only list the program never reads back (Supervisor.execution_log,
\* a local .logs.jsonl file, the rows the log endpoint received) is kept as the
\* exact sequence of its recent entries plus the set of its older entries.
EmptySink == [old |-> {}, recent |-> <<>>]
Put(sink, e) == [sink EXCEPT !.recent = Append(@, e)]
Range(s) == {s[i] : i \in 1..Len(s)}
Fold(sink) == [old |-> sink.old \cup Range(sink.recent), recent |-> <<>>]
Entries(sink) == sink.old \cup Range(sink.recent)

VARIABLES
  \* Supervisor fields
  current_task_id, execution_log, non_interactive, on_escalate, log_dir,
  remote_logging_enabled,
  \* a pending interactive escalation (the input() loop of _escalate_to_human)
  prompting,
  \* environment: local log files by task id, rows sent to write_log, what the
  \* latest _log did remotely, the task whose write_log call last raised,
  \* whether local writes succeed
  local_files, remote_log, last_write, write_raised, disk_ok,
  \* Orchestrator.skills (names registered)
  skills,
  \* one _execute_skill activation
  pc, call, attempt, result,
  \* history of the activation: skill.execute calls, what each did, the result
  \* each attempt ended with, the latest exception raised, the latest line
  \* input() read at the prompt, on_skill_complete(final) calls
  invocations, outcomes, yields, last_exc, last_input, final_notified,
  \* one run of run_smart_mode / run_specified_mode: the TaskConfig (mode,
  \* positions), the task-creation loop (task_created, attempt) and what its
  \* latest create_task call did, results["steps"], the positions analysed, the
  \* strategy_results dict in insertion order, the worker pool, the index of the
  \* specified-mode loop, the set_task_status call made, _finalize_task calls;
  \* task_id is the identifier the run minted (the local `task_id`, also
  \* results["task_id"])
  mode, task_id, cfg_positions, task_created, create_attempt, create_last, steps,
  positions, strategy_results, workers, item, status_update, finalized,
  \* one DatabaseAPI: _continuous_cache in OrderedDict order (oldest first);
  \* history of its get_continuous calls: each call's key, the requests it
  \* sent and whether it raised; what the latest call returned; the number of
  \* distinct keys asked for so far and of calls repeating a key
  continuous_cache, call_log, returned, fresh, recalls,
  \* the read API behind the client: the rows it holds for the symbol, the
  \* longest date range it serves without timing out, which rows a limited
  \* answer keeps; the arguments of the get_continuous calls of SpecChunked
  backend, query,
  \* the direct database connection of the client: whether a connection string
  \* is configured, whether the server accepts connections, the state of
  \* self._conn and the SQL statements executed so far
  direct_db,
  \* the payload side of Supervisor._log: max_log_data_chars, the `data`
  \* argument of the latest call and the message / data fields of its entry
  log_call

supVars == <<current_task_id, execution_log, non_interactive, on_escalate, log_dir,
             remote_logging_enabled, prompting>>
envVars == <<local_files, remote_log, last_write, write_raised, disk_ok>>
execVars == <<skills, pc, call, attempt, result, invocations, outcomes, yields, last_exc,
              last_input, final_notified>>
runVars == <<mode, task_id, cfg_positions, task_created, create_attempt, create_last, steps,
             positions, strategy_results, workers, item, status_update, finalized>>
\* the client, and with it the payload of the latest _log call
clientVars == <<continuous_cache, call_log, returned, fresh, recalls, backend, query,
               direct_db, log_call>>
vars == <<supVars, envVars, execVars, runVars, clientVars>>

\* ------------------------------------------------------------- Supervisor
LogEntry(skill_name, event) ==
  [task_id |-> current_task_id, skill_name |-> skill_name, event |-> event]

\* variant of _append_local_log: the local copy is written only while remote
\* logging is off
AppendLocalOnlyWhenRemoteOff(log_entry) ==
  IF ~log_dir \/ current_task_id = NoTask \/ remote_logging_enabled
    THEN local_files
    ELSE IF disk_ok
      THEN [local_files EXCEPT ![current_task_id] = Put(@, log_entry)]
      ELSE local_files

\* Supervisor._append_local_log: nothing without a log directory or a task id;
\* a failing write is swallowed
_append_local_log(log_entry) ==
  IF ~log_dir \/ current_task_id = NoTask
    THEN local_files
    ELSE IF disk_ok
      THEN [local_files EXCEPT ![current_task_id] = Put(@, log_entry)]
      ELSE local_files

\* the `if self.db_api and self.current_task_id and self.remote_logging_enabled`
\* of Supervisor._log (db_api is always given)
RemoteWriteDue == current_task_id # NoTask /\ remote_logging_enabled

\* variant of _log: a raising write_log leaves remote logging on
LogKeepsRemoteOn(event, skill_name, wl) ==
  LET log_entry == LogEntry(skill_name, event) IN
  /\ execution_log' = Put(execution_log, log_entry)
  /\ local_files' = _append_local_log(log_entry)
  /\ IF RemoteWriteDue
       THEN /\ remote_log' = Put(remote_log, log_entry)
            /\ last_write' = wl
            /\ write_raised' = IF wl = "raise" THEN current_task_id ELSE write_raised
            /\ UNCHANGED remote_logging_enabled
       ELSE /\ last_write' = "none"
            /\ UNCHANGED <<remote_log, write_raised, remote_logging_enabled>>
  /\ UNCHANGED <<current_task_id, non_interactive, on_escalate, log_dir, disk_ok>>

\* Supervisor._log; wl is what DatabaseAPI.write_log does when called:
\* "ok" (returns True), "rejected" (returns False), "raise"
_log(event, skill_name, wl) ==
  LET log_entry == LogEntry(skill_name, event) IN
  /\ execution_log' = Put(execution_log, log_entry)
  /\ local_files' = _append_local_log(log_entry)
  /\ IF RemoteWriteDue
       THEN /\ remote_log' = Put(remote_log, log_entry)
            /\ last_write' = wl
            /\ write_raised' = IF wl = "raise" THEN current_task_id ELSE write_raised
            /\ remote_logging_enabled' = IF wl = "raise" THEN FALSE ELSE remote_logging_enabled
       ELSE /\ last_write' = "none"
            /\ UNCHANGED <<remote_log, write_raised, remote_logging_enabled>>
  /\ UNCHANGED <<current_task_id, non_interactive, on_escalate, log_dir, disk_ok>>

WriteLogOutcomes == {"ok", "rejected", "raise"}

\* Texts are sequences of characters. None is the Python value, not a text.
None == <<"<None>">>
Chars(n) == [k \in 1..n |-> "x"]
\* "...(truncated)"
TruncationMarker ==
  <<".", ".", ".", "(", "t", "r", "u", "n", "c", "a", "t", "e", "d", ")">>
\* the `data` argument of _log: a dict with the text json.dumps gives for it,
\* a string, another value with its str(), or None
DictPayload(n) == [type |-> "dict", text |-> <<"{">> \o Chars(n) \o <<"}">>]
StrPayload(n) == [type |-> "str", text |-> Chars(n)]
OtherPayload(n) == [type |-> "list", text |-> <<"[">> \o Chars(n) \o <<"]">>]
NonePayload == [type |-> "NoneType", text |-> <<"N", "o", "n", "e">>]

\* lines 105-120: only a dict is serialized
serializable(data) == IF data.type = "dict" THEN data.text ELSE None
\* lines 122-123
truncated(serializable_data, max_chars) ==
  IF serializable_data # None /\ serializable_data # <<>>
       /\ Len(serializable_data) > max_chars
    THEN SubSeq(serializable_data, 1, max_chars) \o TruncationMarker
    ELSE serializable_data
\* lines 125-132: the message and data fields of log_entry
EntryPayload(data, max_chars) ==
  [message |-> IF data.type # "dict" THEN data.text ELSE None,
   data |-> truncated(serializable(data), max_chars)]
\* no call yet: nothing was sent to the log endpoint
NoAnswer == [transport |-> [kind |-> "-", status |-> 0, timeout_text |-> FALSE], body |-> "-"]
NoLogCall ==
  [max_log_data_chars |-> 0, data |-> NonePayload, entry |-> [message |-> None, data |-> None],
   answer |-> NoAnswer]

\* Supervisor.on_skill_start
on_skill_start(skill_name, wl) == _log("START", skill_name, wl)

\* variant of CompleteEvent: every completion is logged as COMPLETE
CompleteEventAlways(res) == "COMPLETE"

\* Supervisor.on_skill_complete: COMPLETE for a success, ERROR otherwise
CompleteEvent(res) == IF res.success THEN "COMPLETE" ELSE "ERROR"
on_skill_complete(skill_name, res, wl) == _log(CompleteEvent(res), skill_name, wl)

\* variant of _decide_action: a ModuleError is retried like a NetworkError
DecideActionRetriesModuleError(error) ==
  IF error.kind \in {"NetworkError", "ModuleError"} THEN "retry" ELSE "escalate"

\* Supervisor._decide_action
_decide_action(error) ==
  IF error.kind = "NetworkError" THEN "retry"
  ELSE IF error.kind \in {"DataValidationError", "ModuleError"} THEN "escalate"
  ELSE "escalate"

RetryResult == SkillResult(FALSE, NoData, NoError, TRUE, FALSE, FALSE)
SkippedResult == SkillResult(FALSE, NoData, NoError, FALSE, TRUE, FALSE)
HaltedResult(error) == SkillResult(FALSE, NoData, error, FALSE, FALSE, TRUE)

\* Supervisor._escalate_to_human, non-interactive branch
EscalateNonInteractive(error) ==
  IF on_escalate = "retry" THEN RetryResult
  ELSE IF on_escalate = "skip" THEN SkippedResult
  ELSE HaltedResult(error.text)

\* Supervisor._escalate_to_human, one answer to the input() prompt:
\* r / s / a give a result, anything else prompts again
\* the lines the operator types, character by character
PromptChoices ==
  {<<"r">>, <<"s">>, <<"a">>, <<"x">>, <<>>, <<"R">>, <<" ", "A", " ">>,
   <<"r", "e", "t", "r", "y">>}
\* no line was read yet
NoInput == <<"<none>">>

\* str.strip() and str.lower() on the characters used
IsSpace(c) == c = " "
RECURSIVE lstrip(_)
lstrip(line) ==
  IF line # <<>> /\ IsSpace(Head(line)) THEN lstrip(Tail(line)) ELSE line
RECURSIVE rstrip(_)
rstrip(line) ==
  IF line # <<>> /\ IsSpace(line[Len(line)])
    THEN rstrip(SubSeq(line, 1, Len(line) - 1)) ELSE line
strip(line) == rstrip(lstrip(line))
LowerOf(c) ==
  IF c = "R" THEN "r" ELSE IF c = "S" THEN "s" ELSE IF c = "A" THEN "a" ELSE c
lower(line) == [k \in DOMAIN line |-> LowerOf(line[k])]

\* line 92: `choice = input(...).strip().lower()`
Choice(line) == lower(strip(line))

\* variant of PromptAnswered: any line ends the prompt
PromptAnsweredAny(line) == TRUE

PromptAnswered(line) == Choice(line) \in {<<"r">>, <<"s">>, <<"a">>}
PromptResult(line) ==
  IF Choice(line) = <<"r">> THEN RetryResult
  ELSE IF Choice(line) = <<"s">> THEN SkippedResult
  ELSE HaltedResult(NoError)

\* whether on_skill_error has to ask the operator
NeedsPrompt(error) == _decide_action(error) = "escalate" /\ ~non_interactive

\* Supervisor.on_skill_error: the result returned without a prompt
ErrorResult(error) ==
  LET action == _decide_action(error) IN
  IF action = "retry" THEN RetryResult
  ELSE IF action = "skip" THEN SkippedResult
  ELSE IF action = "escalate" THEN EscalateNonInteractive(error)
  ELSE HaltedResult(NoError)

\* Supervisor.set_task_id
set_task_id(id) ==
  /\ current_task_id' = id
  /\ remote_logging_enabled' = TRUE

\* Supervisor.disable_remote_logging
disable_remote_logging == remote_logging_enabled' = FALSE

\* ------------------------------------------------------- skill behaviour
\* What one call of BaseSkill.execute does: return a SkillResult, return None,
\* or raise.
Returned(res) == [tag |-> "return", res |-> res, exc |-> Exc("Exception", "e1")]
ReturnsNone == [tag |-> "none", res |-> Unset, exc |-> Exc("Exception", "e1")]
Raises(e) == [tag |-> "raise", res |-> Unset, exc |-> e]

Ok(data) == SkillResult(TRUE, data, NoError, FALSE, FALSE, FALSE)
PlainFail == Failure("E_skill")
RetryFail == SkillResult(FALSE, NoData, "E_skill", TRUE, FALSE, FALSE)
HaltedBySkill == SkillResult(FALSE, NoData, "E_skill", FALSE, FALSE, TRUE)
SkippedBySkill == SkillResult(FALSE, NoData, "E_skill", FALSE, TRUE, FALSE)
HaltedAndRetry == SkillResult(FALSE, NoData, "E_skill", TRUE, FALSE, TRUE)
SkippedAndRetry == SkillResult(FALSE, NoData, "E_skill", TRUE, TRUE, FALSE)

\* the behaviours tried in SpecExec
ExecOutcomes ==
  {Returned(r) : r \in {Ok(NoData), Ok(DataOf(<<"p1">>)), PlainFail, RetryFail, HaltedBySkill, SkippedBySkill,
                        HaltedAndRetry, SkippedAndRetry}}
  \cup {ReturnsNone}
  \cup {Raises(e) : e \in Exceptions}

\* what the history keeps of one behaviour (no payload, no text)
Class(o) ==
  [tag |-> o.tag, success |-> o.res.success, payload |-> o.res.data.present,
   retry |-> o.res.retry,
   skipped |-> o.res.skipped, halted |-> o.res.halted,
   kind |-> IF o.tag = "raise" THEN o.exc.kind ELSE "-"]

\* ------------------------------------------- Orchestrator._execute_skill
\* lines 32-33: a None outcome becomes a failure
Normalize(o) == IF o.tag = "none" THEN ReturnedNone ELSE o.res

\* variants of AfterResult, each a slip the loop could contain
\* a retry-flagged failure is returned at once
AfterResultNoRetry(res) ==
  IF res.success THEN "return"
  ELSE IF res.halted \/ res.skipped THEN "return"
  ELSE "return"

\* a success does not leave the loop
AfterResultNoEarlyReturn(res) ==
  IF res.halted \/ res.skipped THEN "return"
  ELSE IF res.retry \/ res.success THEN "continue"
  ELSE "return"

\* the retry flag is looked at before halted / skipped
AfterResultRetryFirst(res) ==
  IF res.success THEN "return"
  ELSE IF res.retry THEN "continue"
  ELSE IF res.halted \/ res.skipped THEN "return"
  ELSE "return"

\* every failure that is not halted or skipped is retried
AfterResultRetryAll(res) ==
  IF res.success THEN "return"
  ELSE IF res.halted \/ res.skipped THEN "return"
  ELSE "continue"

\* lines 38-47: what the loop does with a returned result
AfterResult(res) ==
  IF res.success THEN "return"
  ELSE IF res.halted \/ res.skipped THEN "return"
  ELSE IF res.retry THEN "continue"
  ELSE "return"

\* lines 50-56: what the loop does with the Supervisor's decision
AfterError(error_result) ==
  IF error_result.halted THEN "return"
  ELSE IF error_result.skipped THEN "return"
  ELSE IF ~error_result.retry THEN "return"
  ELSE "continue"

\* `return x` of _execute_skill
Return(res) ==
  /\ result' = res
  /\ pc' = call.ret
  /\ UNCHANGED attempt

\* variant of Continue: the attempt is not counted
ContinueUncounted ==
  /\ attempt' = attempt
  /\ pc' = "exec_loop"
  /\ UNCHANGED result

\* the loop takes its next iteration
Continue ==
  /\ attempt' = attempt + 1
  /\ pc' = "exec_loop"
  /\ UNCHANGED result

Proceed(decision, res) == IF decision = "return" THEN Return(res) ELSE Continue

\* lines 24-27: an unregistered name returns a failure; otherwise START is logged
ExecStart(wl) ==
  /\ pc = "exec_start"
  /\ IF call.skill_name \notin skills
       THEN /\ Return(NotFound)
            /\ UNCHANGED <<supVars, envVars>>
       ELSE /\ on_skill_start(call.skill_name, wl)
            /\ attempt' = 0
            /\ pc' = "exec_loop"
            /\ UNCHANGED <<result, prompting>>
  /\ UNCHANGED <<skills, call, invocations, outcomes, yields, last_exc, last_input, final_notified>>
  /\ UNCHANGED runVars
  /\ UNCHANGED clientVars

\* lines 29-47: one iteration whose skill call returns (a result or None)
ExecAttemptReturns(o, wl) ==
  /\ pc = "exec_loop"
  /\ attempt < call.max_retries
  /\ o.tag \in {"return", "none"}
  /\ invocations' = invocations + 1
  /\ outcomes' = Append(outcomes, Class(o))
  /\ LET res == Normalize(o) IN
       /\ on_skill_complete(call.skill_name, res, wl)
       /\ yields' = Append(yields, res)
       /\ Proceed(AfterResult(res), res)
  /\ UNCHANGED <<skills, call, last_exc, last_input, final_notified, prompting>>
  /\ UNCHANGED runVars
  /\ UNCHANGED clientVars

\* lines 29-31, 48-56: one iteration whose skill call raises
ExecAttemptRaises(o, wl) ==
  /\ pc = "exec_loop"
  /\ attempt < call.max_retries
  /\ o.tag = "raise"
  /\ invocations' = invocations + 1
  /\ outcomes' = Append(outcomes, Class(o))
  /\ last_exc' = o.exc
  /\ UNCHANGED last_input
  /\ _log("ERROR", call.skill_name, wl)
  /\ IF NeedsPrompt(o.exc)
       THEN /\ prompting' = TRUE
            /\ pc' = "exec_prompt"
            /\ UNCHANGED <<attempt, result, yields>>
       ELSE /\ yields' = Append(yields, ErrorResult(o.exc))
            /\ Proceed(AfterError(ErrorResult(o.exc)), ErrorResult(o.exc))
            /\ UNCHANGED prompting
  /\ UNCHANGED <<skills, call, final_notified>>
  /\ UNCHANGED runVars
  /\ UNCHANGED clientVars

\* the operator answers the prompt of _escalate_to_human (supervisor.py 91-99),
\* and the loop goes on with the answer (orchestrator.py 50-56)
ExecPrompt(choice) ==
  /\ pc = "exec_prompt"
  /\ prompting
  /\ last_input' = choice
  /\ IF PromptAnswered(choice)
       THEN /\ prompting' = FALSE
            /\ yields' = Append(yields, PromptResult(choice))
            /\ Proceed(AfterError(PromptResult(choice)), PromptResult(choice))
       ELSE UNCHANGED <<prompting, pc, attempt, result, yields>>
  /\ UNCHANGED <<current_task_id, execution_log, non_interactive, on_escalate, log_dir,
                 remote_logging_enabled, envVars, skills, call, invocations, outcomes,
                 last_exc, final_notified>>
  /\ UNCHANGED runVars
  /\ UNCHANGED clientVars

\* lines 58-60: the loop ran out of attempts
ExecExhausted(wl) ==
  /\ pc = "exec_loop"
  /\ attempt >= call.max_retries
  /\ on_skill_complete(call.skill_name, MaxRetriesExceeded, wl)
  /\ final_notified' = final_notified + 1
  /\ Return(MaxRetriesExceeded)
  /\ UNCHANGED <<skills, call, invocations, outcomes, yields, last_exc, last_input, prompting>>
  /\ UNCHANGED runVars
  /\ UNCHANGED clientVars

\* a DatabaseAPI as constructed (database.py 20-30)
NoRows == [of |-> 0]
NoBackend == [rows |-> <<>>, capacity |-> 0, keeps |-> "first", fault |-> "-",
              chunk_fault |-> "-"]
NoQuery == [start_date |-> FALSE, end_date |-> FALSE, limit |-> <<>>]
NoDatabase == [connection_string |-> FALSE, reachable |-> FALSE, _conn |-> "None",
               statements |-> <<>>]
IdleClient ==
  /\ continuous_cache = <<>>
  /\ call_log = <<>>
  /\ returned = NoRows
  /\ fresh = 0
  /\ recalls = 0
  /\ backend = NoBackend
  /\ query = NoQuery
  /\ direct_db = NoDatabase
  /\ log_call = NoLogCall

\* no run in progress
NoStatus ==
  [task_id |-> NoTask, status |-> "-", error_message |-> NoError, outcome |-> "-",
   db |-> [db_ops |-> 0, returned |-> 0, raised |-> FALSE]]
IdleRun ==
  /\ mode = "-"
  /\ task_id = NoTask
  /\ cfg_positions = <<>>
  /\ task_created = FALSE
  /\ create_attempt = 0
  /\ create_last = "-"
  /\ steps = <<>>
  /\ positions = <<>>
  /\ strategy_results = <<>>
  /\ workers = <<>>
  /\ item = 0
  /\ status_update = NoStatus
  /\ finalized = 0
  /\ IdleClient

\* ------------------------------------------------------------- SpecExec
\* One _execute_skill call on a Supervisor whose task id is set.
SupervisorConfigs ==
  {<<TRUE, a>> : a \in EscalateActions} \cup {<<FALSE, "halt">>}

InitExec ==
  /\ current_task_id = 1
  /\ execution_log = EmptySink
  /\ \E c \in SupervisorConfigs : non_interactive = c[1] /\ on_escalate = c[2]
  /\ log_dir = TRUE
  /\ remote_logging_enabled \in BOOLEAN
  /\ prompting = FALSE
  /\ local_files = [t \in 1..MaxTasks |-> EmptySink]
  /\ remote_log = EmptySink
  /\ last_write = "none"
  /\ write_raised = NoTask
  /\ disk_ok = TRUE
  /\ skills = SkillNames
  /\ pc = "exec_start"
  /\ call \in [skill_name : {"validate_data", "unregistered"},
               max_retries : 0..MaxRetriesBound, ret : {"done"}]
  /\ attempt = 0
  /\ result = Unset
  /\ invocations = 0
  /\ outcomes = <<>>
  /\ yields = <<>>
  /\ last_exc = Exc("Exception", "e1")
  /\ last_input = NoInput
  /\ final_notified = 0
  /\ IdleRun

NextExec ==
  \/ \E wl \in WriteLogOutcomes : ExecStart(wl)
  \/ \E o \in ExecOutcomes, wl \in WriteLogOutcomes : ExecAttemptReturns(o, wl)
  \/ \E o \in ExecOutcomes, wl \in WriteLogOutcomes : ExecAttemptRaises(o, wl)
  \/ \E choice \in PromptChoices : ExecPrompt(choice)
  \/ \E wl \in WriteLogOutcomes : ExecExhausted(wl)

SpecExec == InitExec /\ [][NextExec]_vars

\* the answers that end the prompt
PromptKeys == {line \in PromptChoices : PromptAnswered(line)}
\* The process keeps executing while it can, and an operator at the prompt
\* types one of r / s / a at some point.
SpecExecFair ==
  /\ SpecExec
  /\ WF_vars(NextExec)
  /\ WF_vars(\E choice \in PromptKeys : ExecPrompt(choice))

\* -------------------------------------------------------------- SpecSup
\* A Supervisor as constructed (no task id, remote logging on), its methods
\* called in any order; task ids are minted fresh: 1, 2, ...
InitSup ==
  /\ current_task_id = NoTask
  /\ execution_log = EmptySink
  /\ non_interactive = TRUE
  /\ on_escalate = "halt"
  /\ log_dir \in BOOLEAN
  /\ remote_logging_enabled = TRUE
  /\ prompting = FALSE
  /\ local_files = [t \in 1..MaxTasks |-> EmptySink]
  /\ remote_log = EmptySink
  /\ last_write = "none"
  /\ write_raised = NoTask
  /\ disk_ok = TRUE
  /\ skills = SkillNames
  /\ pc = "supervisor"
  /\ call = [skill_name |-> "validate_data", max_retries |-> DEFAULT_MAX_RETRIES, ret |-> "done"]
  /\ attempt = 0
  /\ result = Unset
  /\ invocations = 0
  /\ outcomes = <<>>
  /\ yields = <<>>
  /\ last_exc = Exc("Exception", "e1")
  /\ last_input = NoInput
  /\ final_notified = 0
  /\ IdleRun

MayLog == pc = "supervisor" /\ Len(execution_log.recent) < MaxLogEvents

SupSetTaskId ==
  /\ pc = "supervisor"
  /\ current_task_id < MaxTasks
  /\ set_task_id(current_task_id + 1)
  /\ UNCHANGED <<execution_log, non_interactive, on_escalate, log_dir, prompting,
                 envVars, execVars, runVars>>
  /\ UNCHANGED clientVars

SupDisableRemoteLogging ==
  /\ pc = "supervisor"
  /\ disable_remote_logging
  /\ UNCHANGED <<current_task_id, execution_log, non_interactive, on_escalate, log_dir,
                 prompting, envVars, execVars, runVars>>
  /\ UNCHANGED clientVars

SupOnSkillStart(wl) ==
  /\ MayLog
  /\ on_skill_start(call.skill_name, wl)
  /\ UNCHANGED <<prompting, execVars, runVars>>
  /\ UNCHANGED clientVars

SupOnSkillComplete(res, wl) ==
  /\ MayLog
  /\ on_skill_complete(call.skill_name, res, wl)
  /\ UNCHANGED <<prompting, execVars, runVars>>
  /\ UNCHANGED clientVars

\* on_skill_error in non-interactive mode; the caller drops the returned result
SupOnSkillError(error, wl) ==
  /\ MayLog
  /\ _log("ERROR", call.skill_name, wl)
  /\ UNCHANGED <<prompting, execVars, runVars>>
  /\ UNCHANGED clientVars

\* the local disk starts or stops accepting writes
DiskChange ==
  /\ pc = "supervisor"
  /\ disk_ok' = ~disk_ok
  /\ UNCHANGED <<supVars, local_files, remote_log, last_write, write_raised, execVars,
                 runVars>>
  /\ UNCHANGED clientVars

NextSup ==
  \/ SupSetTaskId
  \/ SupDisableRemoteLogging
  \/ \E wl \in WriteLogOutcomes : SupOnSkillStart(wl)
  \/ \E res \in {Ok(NoData), PlainFail}, wl \in WriteLogOutcomes : SupOnSkillComplete(res, wl)
  \/ \E wl \in WriteLogOutcomes : SupOnSkillError(Exc("NetworkError", "e1"), wl)
  \/ DiskChange

SpecSup == InitSup /\ [][NextSup]_vars

\* ------------------------------------------------------------------ Spec
\* One run of Orchestrator.run_smart_mode or run_specified_mode on a Supervisor
\* as constructed, with the four skills registered (main.py 89-93).

\* the behaviours of a skill tried in a run
PassedLists == {<<>>, <<"p2">>}
RunOutcomes(skill_name) ==
  {Returned(PlainFail), Raises(Exc("NetworkError", "e1"))}
  \cup (IF skill_name \in {"validate_data", "backtest_strategy"}
          THEN {Raises(Exc("ModuleError", "e2"))} ELSE {})
  \cup (IF skill_name = "validate_data"
          THEN {Returned(Ok(DataOf(l))) : l \in PassedLists} \cup {Returned(Ok(NoData))}
          ELSE {Returned(Ok(DataOf(<<>>)))})

\* what write_log does when called during a run (a rejected write changes
\* nothing and is explored in SpecExec and SpecSup)
RunWriteLog == {"ok", "raise"}
CreateTaskOutcomes == {"true", "false", "raise"}
SetTaskStatusOutcomes == {"noop", "ok", "raise"}

\* an entry of results["steps"]; position is "-" where the entry has none
Step(skill, position, res) == [skill |-> skill, position |-> position, result |-> res]

\* the history of an activation starts empty
NewHistory ==
  /\ attempt' = 0
  /\ invocations' = 0
  /\ outcomes' = <<>>
  /\ yields' = <<>>
  /\ final_notified' = 0
  /\ last_exc' = Exc("Exception", "e1")
  /\ last_input' = NoInput

\* the call `self._execute_skill(name, params)`; control comes back at `ret`
CallSkill(name, ret) ==
  /\ call' = [skill_name |-> name, max_retries |-> DEFAULT_MAX_RETRIES, ret |-> ret]
  /\ pc' = "exec_start"
  /\ NewHistory
  /\ execution_log' = Fold(execution_log)
  /\ local_files' = [t \in DOMAIN local_files |-> Fold(local_files[t])]
  /\ remote_log' = Fold(remote_log)

\* what CallSkill leaves alone, apart from remote_logging_enabled and the run
CallSkillFrame ==
  UNCHANGED <<current_task_id, non_interactive, on_escalate, log_dir, prompting,
              last_write, write_raised, disk_ok, skills, result>>

\* control moves on after the last skill call of the run
Leave(label) ==
  /\ pc' = label
  /\ NewHistory
  /\ UNCHANGED <<current_task_id, execution_log, non_interactive, on_escalate, log_dir,
                 prompting, envVars, skills, call, result>>

\* control moves on without a skill call
Goto(label) ==
  /\ pc' = label
  /\ UNCHANGED <<current_task_id, execution_log, non_interactive, on_escalate, log_dir,
                 prompting, envVars, skills, call, attempt, result, invocations,
                 outcomes, yields, last_exc, last_input, final_notified>>

\* lines 64-69 / 200-205: a fresh task id is given to the Supervisor
\* variant of MintTaskId: the identifier of the Supervisor is used again
MintTaskIdAgain == IF current_task_id = NoTask THEN 1 ELSE current_task_id

\* line 64 / 200: `task_id = f"task_{now}_{uuid4().hex[:6]}"`, an identifier
\* no earlier run had; identifiers are numbered in the order they are minted
MintTaskId == task_id + 1

RunStart ==
  /\ pc = "run_start"
  /\ task_id' = MintTaskId
  /\ set_task_id(task_id')
  /\ task_created' = FALSE
  /\ create_attempt' = 0
  /\ pc' = "create_task"
  /\ UNCHANGED <<execution_log, non_interactive, on_escalate, log_dir, prompting, envVars,
                 skills, call, attempt, result, invocations, outcomes, yields, last_exc, last_input,
                 final_notified>>
  /\ UNCHANGED <<mode, cfg_positions, create_last, steps, positions, strategy_results,
                 workers, item, status_update, finalized>>
  /\ UNCHANGED clientVars

\* variant of CreateLoopEnds: the loop does not break on a created task
CreateLoopNoBreak(created, done) == done >= CREATE_TASK_ATTEMPTS

\* lines 70, 99-100: the loop ends on a true result or after its last iteration
CreateLoopEnds(created, done) == created \/ done >= CREATE_TASK_ATTEMPTS

\* lines 70-101 / 206-235: one iteration of the task-creation loop; create_task
\* returns true, returns false, or raises (caught: task_created = False)
CreateTaskAttempt(out) ==
  /\ pc = "create_task"
  /\ create_attempt < CREATE_TASK_ATTEMPTS
  /\ create_last' = out
  /\ task_created' = (out = "true")
  /\ create_attempt' = create_attempt + 1
  /\ Goto(IF CreateLoopEnds(out = "true", create_attempt + 1) THEN "created" ELSE "create_task")
  /\ UNCHANGED remote_logging_enabled
  /\ UNCHANGED <<mode, task_id, cfg_positions, steps, positions, strategy_results, workers, item,
                 status_update, finalized>>
  /\ UNCHANGED clientVars

\* variant of AfterTaskCreation: remote logging is left as it is
AfterTaskCreationKeepsRemote == UNCHANGED remote_logging_enabled

\* lines 103-105 / 237-239
AfterTaskCreation ==
  IF ~task_created THEN disable_remote_logging ELSE UNCHANGED remote_logging_enabled

\* lines 103-122 / 237-254: after the creation loop, up to the validate call
StartValidate ==
  /\ pc = "created"
  /\ AfterTaskCreation
  /\ steps' = <<>>
  /\ CallSkill("validate_data", "after_validate")
  /\ CallSkillFrame
  /\ UNCHANGED <<mode, task_id, cfg_positions, task_created, create_attempt, create_last,
                 positions, strategy_results, workers, item, status_update, finalized>>
  /\ UNCHANGED clientVars

\* variant of ItemsAfterValidate: an empty passed list falls back to the
\* configured items
ItemsAfterValidateFallsBack(validate_result) ==
  IF validate_result.data.present /\ validate_result.data.passed # <<>>
    THEN [proceed |-> TRUE, positions |-> validate_result.data.passed]
    ELSE [proceed |-> TRUE, positions |-> cfg_positions]

\* lines 128-136 / 260-267: the items to analyse after a successful validate;
\* <<>> with proceed = FALSE when the validate data has no passed item
ItemsAfterValidate(validate_result) ==
  IF validate_result.data.present
    THEN [proceed |-> validate_result.data.passed # <<>>, positions |-> validate_result.data.passed]
    ELSE [proceed |-> TRUE, positions |-> cfg_positions]

\* variant of ValidateStops: only an empty passed list ends the run
ValidateStopsOnEmptyPassOnly(validate_result) ==
  ~ItemsAfterValidate(validate_result).proceed

\* lines 124-126, 129-136 / 256-258, 261-267: the run goes to _finalize_task
\* right after validate
ValidateStops(validate_result) ==
  ~validate_result.success \/ ~ItemsAfterValidate(validate_result).proceed

\* a worker of the pool before it is started
Submitted(position) ==
  [position |-> position, state |-> "submitted", invoked |-> 0, kind |-> "-",
   raised |-> FALSE, raw |-> [has_error |-> FALSE, error |-> NoError],
   \* the _continuous_cache of the client the worker builds
   cache |-> <<>>]

\* lines 253-272: run_specified_mode from the return of validate to the first
\* analysis call (or to _finalize_task)
AfterValidateSpecified ==
  /\ pc = "after_validate"
  /\ mode = "specified"
  /\ steps' = Append(steps, Step("validate_data", "-", result))
  /\ LET next == ItemsAfterValidate(result) IN
       IF ValidateStops(result)
         THEN /\ Leave("finalize")
              /\ UNCHANGED <<positions, item>>
         ELSE /\ positions' = next.positions
              /\ item' = 1
              /\ IF next.positions = <<>>
                   THEN CallSkill("backtest_portfolio", "after_portfolio")
                   ELSE CallSkill("backtest_strategy", "after_strategy")
              /\ CallSkillFrame
  /\ UNCHANGED remote_logging_enabled
  /\ UNCHANGED <<mode, task_id, cfg_positions, task_created, create_attempt, create_last,
                 strategy_results, workers, status_update, finalized>>
  /\ UNCHANGED clientVars

\* variant of DictSet: the assignment drops what the dict held
DictSetDropsOthers(d, position, value) == <<[position |-> position, value |-> value]>>

\* dict assignment strategy_results[position] = value, in insertion order
DictSet(d, position, value) ==
  IF \E i \in 1..Len(d) : d[i].position = position
    THEN [i \in 1..Len(d) |->
            IF d[i].position = position THEN [position |-> position, value |-> value]
            ELSE d[i]]
    ELSE Append(d, [position |-> position, value |-> value])

\* variant of AfterStrategy: an unsuccessful analysis ends the run
AfterStrategyStopsOnFailure ==
  /\ pc = "after_strategy"
  /\ strategy_results' = DictSet(strategy_results, positions[item], result)
  /\ steps' = Append(steps, Step("backtest_strategy", positions[item], result))
  /\ item' = item + 1
  /\ IF ~result.success
       THEN Leave("finalize")
       ELSE /\ IF item < Len(positions)
                 THEN CallSkill("backtest_strategy", "after_strategy")
                 ELSE CallSkill("backtest_portfolio", "after_portfolio")
            /\ CallSkillFrame
  /\ UNCHANGED remote_logging_enabled
  /\ UNCHANGED <<mode, task_id, cfg_positions, task_created, create_attempt, create_last,
                 positions, workers, status_update, finalized>>
  /\ UNCHANGED clientVars

\* variant of AfterStrategy: a halted analysis ends the run
AfterStrategyStopsOnHalt ==
  /\ pc = "after_strategy"
  /\ strategy_results' = DictSet(strategy_results, positions[item], result)
  /\ steps' = Append(steps, Step("backtest_strategy", positions[item], result))
  /\ item' = item + 1
  /\ IF result.halted
       THEN Leave("finalize")
       ELSE /\ IF item < Len(positions)
                 THEN CallSkill("backtest_strategy", "after_strategy")
                 ELSE CallSkill("backtest_portfolio", "after_portfolio")
            /\ CallSkillFrame
  /\ UNCHANGED remote_logging_enabled
  /\ UNCHANGED <<mode, task_id, cfg_positions, task_created, create_attempt, create_last,
                 positions, workers, status_update, finalized>>
  /\ UNCHANGED clientVars

\* lines 271-282: one analysis call returned; the next item or the aggregate stage
AfterStrategy ==
  /\ pc = "after_strategy"
  /\ strategy_results' = DictSet(strategy_results, positions[item], result)
  /\ steps' = Append(steps, Step("backtest_strategy", positions[item], result))
  /\ item' = item + 1
  /\ IF item < Len(positions)
       THEN CallSkill("backtest_strategy", "after_strategy")
       ELSE CallSkill("backtest_portfolio", "after_portfolio")
  /\ CallSkillFrame
  /\ UNCHANGED remote_logging_enabled
  /\ UNCHANGED <<mode, task_id, cfg_positions, task_created, create_attempt, create_last,
                 positions, workers, status_update, finalized>>
  /\ UNCHANGED clientVars

\* variant of AfterPortfolio: a failed aggregate stage ends the run
AfterPortfolioStopsOnFailure ==
  /\ pc = "after_portfolio"
  /\ steps' = Append(steps, Step("backtest_portfolio", "-", result))
  /\ IF result.success
       THEN /\ CallSkill("generate_report", "after_report")
            /\ CallSkillFrame
       ELSE Leave("finalize")
  /\ UNCHANGED remote_logging_enabled
  /\ UNCHANGED <<mode, task_id, cfg_positions, task_created, create_attempt, create_last,
                 positions, strategy_results, workers, item, status_update, finalized>>
  /\ UNCHANGED clientVars

\* lines 186-189 / 288-291: the aggregate stage returned; the report stage is called
AfterPortfolio ==
  /\ pc = "after_portfolio"
  /\ steps' = Append(steps, Step("backtest_portfolio", "-", result))
  /\ CallSkill("generate_report", "after_report")
  /\ CallSkillFrame
  /\ UNCHANGED remote_logging_enabled
  /\ UNCHANGED <<mode, task_id, cfg_positions, task_created, create_attempt, create_last,
                 positions, strategy_results, workers, item, status_update, finalized>>
  /\ UNCHANGED clientVars

\* lines 193-195 / 292-294
AfterReport ==
  /\ pc = "after_report"
  /\ steps' = Append(steps, Step("generate_report", "-", result))
  /\ Leave("finalize")
  /\ UNCHANGED remote_logging_enabled
  /\ UNCHANGED <<mode, task_id, cfg_positions, task_created, create_attempt, create_last,
                 positions, strategy_results, workers, item, status_update, finalized>>
  /\ UNCHANGED clientVars

\* variant of ScanSteps: a halted step does not end the scan
RECURSIVE ScanStepsNoBreak(_, _, _)
ScanStepsNoBreak(ss, status, error_message) ==
  IF ss = <<>> THEN [status |-> status, error_message |-> error_message]
  ELSE LET r == Head(ss).result IN
    IF r.halted THEN ScanStepsNoBreak(Tail(ss), "halted", r.error)
    ELSE IF ~r.success THEN ScanStepsNoBreak(Tail(ss), "failed", r.error)
    ELSE ScanStepsNoBreak(Tail(ss), status, error_message)

\* lines 307-319: the scan of results["steps"]
RECURSIVE ScanSteps(_, _, _)
ScanSteps(ss, status, error_message) ==
  IF ss = <<>> THEN [status |-> status, error_message |-> error_message]
  ELSE LET r == Head(ss).result IN
    IF r.halted THEN [status |-> "halted", error_message |-> r.error]
    ELSE IF ~r.success THEN ScanSteps(Tail(ss), "failed", r.error)
    ELSE ScanSteps(Tail(ss), status, error_message)

\* main.py 177-193: the scan of results["steps"] made for the command-line
\* summary; `if error is None: error = r.error`
RECURSIVE SummarizeSteps(_, _, _)
SummarizeSteps(ss, status, error) ==
  IF ss = <<>> THEN [status |-> status, error |-> error]
  ELSE LET r == Head(ss).result IN
    IF r.halted THEN [status |-> "halted", error |-> r.error]
    ELSE IF ~r.success
      THEN SummarizeSteps(Tail(ss), "failed", IF error = NoError THEN r.error ELSE error)
    ELSE SummarizeSteps(Tail(ss), status, error)

\* main._summarize_status(results)
_summarize_status(results_steps) == SummarizeSteps(results_steps, "completed", NoError)

\* the database as set_task_status finds it: "noop" - no connection string is
\* configured; "ok" - one is and the UPDATE goes through; "raise" - one is and
\* connect() or the UPDATE raises
DbEnvironment(out) == [connection_string |-> out # "noop", update_raises |-> out = "raise"]

\* DatabaseAPI.update_where with non-empty data and where: one database
\* operation, which returns the row count or raises
update_where(env) ==
  IF env.update_raises THEN [db_ops |-> 1, returned |-> 0, raised |-> TRUE]
  ELSE [db_ops |-> 1, returned |-> 1, raised |-> FALSE]

\* DatabaseAPI.set_task_status
set_task_status(env) ==
  IF ~env.connection_string THEN [db_ops |-> 0, returned |-> 0, raised |-> FALSE]
  ELSE update_where(env)

\* variant of FinalizeEnds: an exception of set_task_status leaves the run
FinalizePropagates(raised) == IF raised THEN "crashed" ELSE "finished"

\* variant of FinalizeEnds: a failed update is tried again
FinalizeAgainOnError(raised) == IF raised THEN "finalize" ELSE "finished"

\* lines 321-330: try / except Exception: pass
FinalizeEnds(raised) == "finished"

\* Orchestrator._finalize_task
Finalize(out) ==
  /\ pc = "finalize"
  /\ LET s == ScanSteps(steps, "completed", NoError)
         db == set_task_status(DbEnvironment(out)) IN
       /\ status_update' = [task_id |-> task_id, status |-> s.status,
                            error_message |-> s.error_message, outcome |-> out, db |-> db]
       /\ Goto(FinalizeEnds(db.raised))
  /\ finalized' = finalized + 1
  /\ UNCHANGED remote_logging_enabled
  /\ UNCHANGED <<mode, task_id, cfg_positions, task_created, create_attempt, create_last, steps,
                 positions, strategy_results, workers, item>>
  /\ UNCHANGED clientVars

\* ------------------------------------- DatabaseAPI._continuous_cache
\* the rows the backend holds for a key
Rows(key) == [of |-> key]
Raised == [of |-> -1]

\* variant of Lookup: the cache is never consulted
LookupNothing(cache, key) == {}

\* `cache_key in self._continuous_cache`: the positions holding the key
Lookup(cache, key) == {i \in 1..Len(cache) : cache[i].key = key}

\* variant of Promote: a hit leaves the entry where it is
PromoteNot(cache, i) == cache

\* lines 149-151: pop the entry and insert it again, at the end
Promote(cache, i) ==
  SubSeq(cache, 1, i - 1) \o SubSeq(cache, i + 1, Len(cache)) \o <<cache[i]>>

\* lines 171-173: store under the key, then drop the oldest entry if the cache
\* holds more than _continuous_cache_max
Store(cache, key, data) ==
  LET stored == IF Lookup(cache, key) = {}
                  THEN Append(cache, [key |-> key, data |-> data])
                  ELSE [i \in 1..Len(cache) |->
                          IF cache[i].key = key THEN [key |-> key, data |-> data]
                          ELSE cache[i]]
  IN IF Len(stored) > _continuous_cache_max THEN Tail(stored) ELSE stored

\* ------------------------------------------- the worker pool of smart mode
\* backtest_strategy._run_optimization_pure on a skill call that does `o`: the
\* dict returned, or the exception that leaves the worker (a None result has no
\* .success: AttributeError)
Raw(has_error, error) == [has_error |-> has_error, error |-> error]
_run_optimization_pure(o) ==
  IF o.tag = "raise" THEN [raised |-> TRUE, raw |-> Raw(TRUE, o.exc.text)]
  ELSE IF o.tag = "none" THEN [raised |-> TRUE, raw |-> Raw(TRUE, "AttributeError")]
  ELSE IF o.res.success /\ o.res.data.present THEN [raised |-> FALSE, raw |-> Raw(FALSE, NoError)]
  ELSE [raised |-> FALSE, raw |-> Raw(TRUE, o.res.error)]

\* variant of PoolSize: one worker process per item
PoolSizeOfItems == Len(positions)

\* lines 142, 145: n_workers
PoolSize == IF Len(positions) < 2 THEN Len(positions) ELSE 2
\* the items a worker process is busy with; a call that never returns keeps
\* its process
Running == {i \in DOMAIN workers : workers[i].state \in {"running", "hung"}}

\* lines 123-157: run_smart_mode from the return of validate to the submission
\* of every item to the pool (or to _finalize_task); ProcessPoolExecutor
\* rejects max_workers = 0
AfterValidateSmart ==
  /\ pc = "after_validate"
  /\ mode = "smart"
  /\ steps' = Append(steps, Step("validate_data", "-", result))
  /\ LET next == ItemsAfterValidate(result) IN
       IF ValidateStops(result)
         THEN /\ Leave("finalize")
              /\ UNCHANGED <<positions, workers>>
         ELSE /\ positions' = next.positions
              /\ workers' = [i \in 1..Len(next.positions) |-> Submitted(next.positions[i])]
              /\ Leave(IF next.positions = <<>> THEN "crashed" ELSE "pool")
  /\ UNCHANGED remote_logging_enabled
  /\ UNCHANGED <<mode, task_id, cfg_positions, task_created, create_attempt, create_last,
                 strategy_results, item, status_update, finalized>>
  /\ UNCHANGED clientVars

PoolFrameMain ==
  /\ UNCHANGED <<supVars, envVars, execVars>>
  /\ UNCHANGED <<mode, task_id, cfg_positions, task_created, create_attempt, create_last, steps,
                 positions, item, status_update, finalized>>
PoolFrame ==
  /\ PoolFrameMain
  /\ UNCHANGED clientVars

\* variant of WorkerClient: the worker is handed the client of the main process
WorkerClientShared(position) == "main"

\* backtest_strategy.py 98-99: `db_api = DatabaseAPI(None, api_config)`, built
\* inside the worker and given to its own BacktestStrategySkill
WorkerClient(position) == "own"

\* the continuous series a skill call of the worker read through its client:
\* the one of its item when the call returned, none when it raised
ReadsOf(o, position) == IF o.tag = "raise" THEN {} ELSE {position}
AfterReads(cache, keys) ==
  IF keys = {} THEN cache
  ELSE LET key == CHOOSE k \in keys : TRUE IN Store(cache, key, Rows(key))

\* a free worker process takes the next submitted item
WorkerStart(i) ==
  /\ pc = "pool"
  /\ workers[i].state = "submitted"
  /\ \A j \in 1..(i - 1) : workers[j].state # "submitted"
  /\ Cardinality(Running) < PoolSize
  /\ workers' = [workers EXCEPT ![i].state = "running"]
  /\ UNCHANGED strategy_results
  /\ PoolFrame

\* the worker runs _run_optimization_pure: one skill.execute call, no Supervisor
WorkerFinish(i, o) ==
  /\ pc = "pool"
  /\ workers[i].state = "running"
  /\ LET f == _run_optimization_pure(o)
         own == WorkerClient(workers[i].position) = "own"
         reads == ReadsOf(o, workers[i].position)
     IN
       /\ workers' = [workers EXCEPT ![i] =
                       [position |-> @.position, state |-> "done", invoked |-> @.invoked + 1,
                        kind |-> Class(o).kind, raised |-> f.raised, raw |-> f.raw,
                        cache |-> IF own THEN AfterReads(@.cache, reads) ELSE @.cache]]
       /\ continuous_cache' = IF own THEN continuous_cache
                              ELSE AfterReads(continuous_cache, reads)
  /\ UNCHANGED strategy_results
  /\ PoolFrameMain
  /\ UNCHANGED <<call_log, returned, fresh, recalls, backend, query, direct_db, log_call>>

\* the skill call of a worker never returns
WorkerHangs(i) ==
  /\ pc = "pool"
  /\ workers[i].state = "running"
  /\ workers' = [workers EXCEPT ![i].state = "hung"]
  /\ UNCHANGED strategy_results
  /\ PoolFrame

\* lines 160-168: as_completed yields a finished future; its result, or
\* {"error": str(e)} for the exception it carries, is stored under the item
Collect(i) ==
  /\ pc = "pool"
  /\ workers[i].state = "done"
  /\ workers' = [workers EXCEPT ![i].state = "collected"]
  /\ strategy_results' = DictSet(strategy_results, workers[i].position, workers[i].raw)
  /\ PoolFrame

\* lines 171-176: a collected dict as a SkillResult
AsSkillResult(raw) ==
  IF ~raw.has_error THEN Ok(DataOf(<<>>)) ELSE Failure(raw.error)

StrategySteps ==
  [i \in 1..Len(strategy_results) |->
     Step("backtest_strategy", strategy_results[i].position,
          AsSkillResult(strategy_results[i].value))]

\* lines 169-185: every future was yielded, the pool is shut down, the results
\* become steps and the aggregate stage is called
PoolDone ==
  /\ pc = "pool"
  /\ \A i \in DOMAIN workers : workers[i].state = "collected"
  /\ steps' = steps \o StrategySteps
  /\ CallSkill("backtest_portfolio", "after_portfolio")
  /\ CallSkillFrame
  /\ UNCHANGED remote_logging_enabled
  /\ UNCHANGED <<mode, task_id, cfg_positions, task_created, create_attempt, create_last,
                 positions, strategy_results, workers, item, status_update, finalized>>
  /\ UNCHANGED clientVars

WorkerOutcomes == RunOutcomes("backtest_strategy")

Init ==
  /\ current_task_id = NoTask
  /\ execution_log = EmptySink
  /\ \E c \in SupervisorConfigs : non_interactive = c[1] /\ on_escalate = c[2]
  /\ log_dir = TRUE
  /\ remote_logging_enabled = TRUE
  /\ prompting = FALSE
  /\ local_files = [t \in 1..MaxTasks |-> EmptySink]
  /\ remote_log = EmptySink
  /\ last_write = "none"
  /\ write_raised = NoTask
  /\ disk_ok = TRUE
  /\ skills = SkillNames
  /\ pc = "run_start"
  /\ call = [skill_name |-> "validate_data", max_retries |-> DEFAULT_MAX_RETRIES, ret |-> "done"]
  /\ attempt = 0
  /\ result = Unset
  /\ invocations = 0
  /\ outcomes = <<>>
  /\ yields = <<>>
  /\ last_exc = Exc("Exception", "e1")
  /\ last_input = NoInput
  /\ final_notified = 0
  /\ mode \in {"smart", "specified"}
  /\ task_id = NoTask
  /\ cfg_positions = <<"p1", "p2">>
  /\ task_created = FALSE
  /\ create_attempt = 0
  /\ create_last = "-"
  /\ steps = <<>>
  /\ positions = <<>>
  /\ strategy_results = <<>>
  /\ workers = <<>>
  /\ item = 0
  /\ status_update = NoStatus
  /\ finalized = 0
  /\ IdleClient

InRun == mode # "-"

Next ==
  \/ RunStart
  \/ \E out \in CreateTaskOutcomes : CreateTaskAttempt(out)
  \/ StartValidate
  \/ InRun /\ \E wl \in RunWriteLog : ExecStart(wl)
  \/ InRun /\ \E o \in RunOutcomes(call.skill_name), wl \in RunWriteLog : ExecAttemptReturns(o, wl)
  \/ InRun /\ \E o \in RunOutcomes(call.skill_name), wl \in RunWriteLog : ExecAttemptRaises(o, wl)
  \/ InRun /\ \E choice \in PromptChoices : ExecPrompt(choice)
  \/ InRun /\ \E wl \in RunWriteLog : ExecExhausted(wl)
  \/ AfterValidateSpecified
  \/ AfterValidateSmart
  \/ AfterStrategy
  \/ \E i \in DOMAIN workers : WorkerStart(i)
  \/ \E i \in DOMAIN workers, o \in WorkerOutcomes : WorkerFinish(i, o)
  \/ \E i \in DOMAIN workers : WorkerHangs(i)
  \/ \E i \in DOMAIN workers : Collect(i)
  \/ PoolDone
  \/ AfterPortfolio
  \/ AfterReport
  \/ \E out \in SetTaskStatusOutcomes : Finalize(out)

Spec == Init /\ [][Next]_vars

\* ------------------------------------------------------------- SpecItems
\* Runs of both modes over item lists with and without a repeated item, on a
\* non-interactive Supervisor (on_escalate = halt), where the task is created
\* at the first attempt, the log endpoint accepts every write, no connection
\* string is configured and validate passes a non-empty part of the configured
\* list (validate_data.py 35-60: `passed` keeps the configured order). The
\* process keeps taking steps while it has one to take.
RECURSIVE Pick(_, _, _)
Pick(s, I, i) ==
  IF i > Len(s) THEN <<>>
  ELSE (IF i \in I THEN <<s[i]>> ELSE <<>>) \o Pick(s, I, i + 1)
SubLists(s) == {Pick(s, I, 1) : I \in (SUBSET (1..Len(s))) \ {{}}}

ItemLists == {<<"p1", "p2">>, <<"p1", "p1">>, <<"p1", "p2", "p3">>}

ItemsOutcomes(skill_name) ==
  IF skill_name = "validate_data"
    THEN {Returned(Ok(DataOf(l))) : l \in SubLists(cfg_positions)}
    ELSE IF skill_name = "backtest_strategy"
      THEN WorkerOutcomes
      ELSE {Returned(Ok(DataOf(<<>>))), Returned(PlainFail), Raises(Exc("NetworkError", "e1"))}

\* what the cache of the main client holds when the run starts
MainCaches == {<<>>, <<[key |-> "p1", data |-> Rows("p1")]>>}

InitItems ==
  /\ current_task_id = NoTask
  /\ execution_log = EmptySink
  /\ non_interactive = TRUE
  /\ on_escalate = "halt"
  /\ log_dir = TRUE
  /\ remote_logging_enabled = TRUE
  /\ prompting = FALSE
  /\ local_files = [t \in 1..MaxTasks |-> EmptySink]
  /\ remote_log = EmptySink
  /\ last_write = "none"
  /\ write_raised = NoTask
  /\ disk_ok = TRUE
  /\ skills = SkillNames
  /\ pc = "run_start"
  /\ call = [skill_name |-> "validate_data", max_retries |-> DEFAULT_MAX_RETRIES, ret |-> "done"]
  /\ attempt = 0
  /\ result = Unset
  /\ invocations = 0
  /\ outcomes = <<>>
  /\ yields = <<>>
  /\ last_exc = Exc("Exception", "e1")
  /\ last_input = NoInput
  /\ final_notified = 0
  /\ mode \in {"smart", "specified"}
  /\ task_id = NoTask
  /\ cfg_positions \in ItemLists
  /\ task_created = FALSE
  /\ create_attempt = 0
  /\ create_last = "-"
  /\ steps = <<>>
  /\ positions = <<>>
  /\ strategy_results = <<>>
  /\ workers = <<>>
  /\ item = 0
  /\ status_update = NoStatus
  /\ finalized = 0
  /\ continuous_cache \in MainCaches
  /\ call_log = <<>>
  /\ returned = NoRows
  /\ fresh = 0
  /\ recalls = 0
  /\ backend = NoBackend
  /\ query = NoQuery
  /\ direct_db = NoDatabase
  /\ log_call = NoLogCall

NextItems ==
  \/ RunStart
  \/ CreateTaskAttempt("true")
  \/ StartValidate
  \/ InRun /\ ExecStart("ok")
  \/ InRun /\ \E o \in ItemsOutcomes(call.skill_name) : ExecAttemptReturns(o, "ok")
  \/ InRun /\ \E o \in ItemsOutcomes(call.skill_name) : ExecAttemptRaises(o, "ok")
  \/ InRun /\ ExecExhausted("ok")
  \/ AfterValidateSpecified
  \/ AfterValidateSmart
  \/ AfterStrategy
  \/ \E i \in DOMAIN workers : WorkerStart(i)
  \/ \E i \in DOMAIN workers, o \in WorkerOutcomes : WorkerFinish(i, o)
  \/ \E i \in DOMAIN workers : WorkerHangs(i)
  \/ \E i \in DOMAIN workers : Collect(i)
  \/ PoolDone
  \/ AfterPortfolio
  \/ AfterReport
  \/ Finalize("noop")

SpecItems == InitItems /\ [][NextItems]_vars /\ WF_vars(NextItems)

\* ------------------------------------------------------------- SpecReport
\* A run of either mode on every Supervisor configuration in which validate
\* passes both items and the aggregate and report skills succeed, fail, or
\* raise an error that is retried (NetworkError) or escalated (ModuleError).
ReportOutcomes(skill_name) ==
  IF skill_name = "validate_data"
    THEN {Returned(Ok(DataOf(cfg_positions)))}
    ELSE IF skill_name = "backtest_strategy"
      THEN {Returned(Ok(DataOf(<<>>))), Returned(PlainFail)}
      ELSE {Returned(Ok(DataOf(<<>>))), Returned(PlainFail),
            Raises(Exc("NetworkError", "e1")), Raises(Exc("ModuleError", "e2"))}

NextReport ==
  \/ RunStart
  \/ CreateTaskAttempt("true")
  \/ StartValidate
  \/ InRun /\ ExecStart("ok")
  \/ InRun /\ \E o \in ReportOutcomes(call.skill_name) : ExecAttemptReturns(o, "ok")
  \/ InRun /\ \E o \in ReportOutcomes(call.skill_name) : ExecAttemptRaises(o, "ok")
  \/ InRun /\ \E choice \in PromptChoices : ExecPrompt(choice)
  \/ InRun /\ ExecExhausted("ok")
  \/ AfterValidateSpecified
  \/ AfterValidateSmart
  \/ AfterStrategy
  \/ \E i \in DOMAIN workers : WorkerStart(i)
  \/ \E i \in DOMAIN workers, o \in ReportOutcomes("backtest_strategy") : WorkerFinish(i, o)
  \/ \E i \in DOMAIN workers : WorkerHangs(i)
  \/ \E i \in DOMAIN workers : Collect(i)
  \/ PoolDone
  \/ AfterPortfolio
  \/ AfterReport
  \/ Finalize("noop")

SpecReport == Init /\ [][NextReport]_vars

\* --------------------------------------------------------------- SpecRuns
\* Up to MaxTasks runs, one after the other, on the same Orchestrator and
\* Supervisor (the objects main.py builds serve any number of run_* calls).
RunsOutcomes(skill_name) ==
  IF skill_name = "validate_data"
    THEN {Returned(Ok(DataOf(<<"p1">>))), Raises(Exc("NetworkError", "e1"))}
    ELSE {Returned(Ok(DataOf(<<>>)))}

\* the next call of run_smart_mode / run_specified_mode: its locals start
\* afresh, the Supervisor, the client and the log sinks are as the run before
\* left them
RunAgain ==
  /\ pc = "finished"
  /\ task_id < MaxTasks
  /\ pc' = "run_start"
  /\ mode' \in {"smart", "specified"}
  /\ task_created' = FALSE
  /\ create_attempt' = 0
  /\ create_last' = "-"
  /\ steps' = <<>>
  /\ positions' = <<>>
  /\ strategy_results' = <<>>
  /\ workers' = <<>>
  /\ item' = 0
  /\ finalized' = 0
  /\ UNCHANGED <<task_id, cfg_positions, status_update>>
  /\ UNCHANGED <<supVars, envVars, clientVars>>
  /\ UNCHANGED <<skills, call, attempt, result, invocations, outcomes, yields, last_exc,
                 last_input, final_notified>>

InitRuns ==
  /\ Init
  /\ non_interactive /\ on_escalate = "halt"

NextRuns ==
  \/ RunStart
  \/ \E out \in {"true", "false"} : CreateTaskAttempt(out)
  \/ StartValidate
  \/ InRun /\ ExecStart("ok")
  \/ InRun /\ \E o \in RunsOutcomes(call.skill_name) : ExecAttemptReturns(o, "ok")
  \/ InRun /\ \E o \in RunsOutcomes(call.skill_name) : ExecAttemptRaises(o, "ok")
  \/ InRun /\ ExecExhausted("ok")
  \/ AfterValidateSpecified
  \/ AfterValidateSmart
  \/ AfterStrategy
  \/ \E i \in DOMAIN workers : WorkerStart(i)
  \/ \E i \in DOMAIN workers, o \in RunsOutcomes("backtest_strategy") : WorkerFinish(i, o)
  \/ \E i \in DOMAIN workers : WorkerHangs(i)
  \/ \E i \in DOMAIN workers : Collect(i)
  \/ PoolDone
  \/ AfterPortfolio
  \/ AfterReport
  \/ Finalize("ok")
  \/ RunAgain

SpecRuns == InitRuns /\ [][NextRuns]_vars

\* ------------------------------------------------------------- SpecHalt
\* A run of specified mode on each non-interactive Supervisor: validate passes
\* every item, passes none, returns no data or fails; an analysis or the
\* aggregate skill succeeds, fails, or raises a ModuleError, which the
\* Supervisor turns into a halted, a skipped or a retried result.
HaltOutcomes(skill_name) ==
  IF skill_name = "validate_data"
    THEN {Returned(Ok(DataOf(cfg_positions))), Returned(Ok(DataOf(<<>>))), Returned(Ok(NoData)),
          Returned(PlainFail)}
    ELSE IF skill_name = "generate_report"
      THEN {Returned(Ok(DataOf(<<>>))), Returned(PlainFail)}
      ELSE {Returned(Ok(DataOf(<<>>))), Returned(PlainFail), Raises(Exc("ModuleError", "e2"))}

InitHalt ==
  /\ Init
  /\ mode = "specified"
  /\ non_interactive

NextHalt ==
  \/ RunStart
  \/ CreateTaskAttempt("true")
  \/ StartValidate
  \/ InRun /\ ExecStart("ok")
  \/ InRun /\ \E o \in HaltOutcomes(call.skill_name) : ExecAttemptReturns(o, "ok")
  \/ InRun /\ \E o \in HaltOutcomes(call.skill_name) : ExecAttemptRaises(o, "ok")
  \/ InRun /\ ExecExhausted("ok")
  \/ AfterValidateSpecified
  \/ AfterStrategy
  \/ AfterPortfolio
  \/ AfterReport
  \/ Finalize("ok")

SpecHalt == InitHalt /\ [][NextHalt]_vars


\* ----------------------------------------------------------- SpecFinalize
\* _finalize_task applied to every step history of up to MaxSteps steps whose
\* results take every combination of success, halted and error text.
FinalizeResults ==
  {SkillResult(sc, NoData, e, FALSE, FALSE, h) :
     sc \in BOOLEAN, h \in BOOLEAN, e \in {NoError} \cup ErrorTexts}
StageAt(k) ==
  IF k = 1 THEN "validate_data" ELSE IF k = 2 THEN "backtest_strategy"
  ELSE IF k = 3 THEN "backtest_portfolio" ELSE "generate_report"
StepHistories ==
  UNION {{[k \in 1..n |-> Step(StageAt(k), "-", rs[k])] : rs \in [1..n -> FinalizeResults]}
         : n \in 0..MaxSteps}

InitFinalize ==
  /\ current_task_id = 1
  /\ execution_log = EmptySink
  /\ non_interactive = TRUE
  /\ on_escalate = "halt"
  /\ log_dir = TRUE
  /\ remote_logging_enabled = TRUE
  /\ prompting = FALSE
  /\ local_files = [t \in 1..MaxTasks |-> EmptySink]
  /\ remote_log = EmptySink
  /\ last_write = "none"
  /\ write_raised = NoTask
  /\ disk_ok = TRUE
  /\ skills = SkillNames
  /\ pc = "finalize"
  /\ call = [skill_name |-> "validate_data", max_retries |-> DEFAULT_MAX_RETRIES, ret |-> "done"]
  /\ attempt = 0
  /\ result = Unset
  /\ invocations = 0
  /\ outcomes = <<>>
  /\ yields = <<>>
  /\ last_exc = Exc("Exception", "e1")
  /\ last_input = NoInput
  /\ final_notified = 0
  /\ mode = "specified"
  /\ task_id = 1
  /\ cfg_positions = <<"p1">>
  /\ task_created = TRUE
  /\ create_attempt = 1
  /\ create_last = "true"
  /\ steps \in StepHistories
  /\ positions = <<>>
  /\ strategy_results = <<>>
  /\ workers = <<>>
  /\ item = 0
  /\ status_update = NoStatus
  /\ finalized = 0
  /\ IdleClient

NextFinalize == \E out \in SetTaskStatusOutcomes : Finalize(out)

SpecFinalize == InitFinalize /\ [][NextFinalize]_vars

\* -------------------------------------------------------------- SpecCache
\* One DatabaseAPI whose get_continuous is called with keys 1, 2, 3, ... (each
\* a distinct (symbol, start_date, end_date, limit) tuple) and again with the
\* keys of RepeatedKeys. The read of a key of RepeatedKeys may fail
\* (NetworkError that is no timeout, or ModuleError); the other reads succeed.
RepeatedKeys == {1}
NetOutcomes(key) == IF key \in RepeatedKeys THEN {"ok", "fail"} ELSE {"ok"}

\* lines 154-168 for an abstract key: one request that answers or raises an
\* error that is no timeout
Fetch(key, net) ==
  IF net = "fail" THEN [raised |-> TRUE, data |-> Raised, requests |-> 1, sent |-> <<key>>]
  ELSE [raised |-> FALSE, data |-> Rows(key), requests |-> 1, sent |-> <<key>>]

\* variant of get_continuous: what a failed read left is stored as well
GetContinuousStoresErrors(key, fetched) ==
  LET at == Lookup(continuous_cache, key) IN
  IF at # {}
    THEN LET i == CHOOSE i \in at : TRUE IN
         /\ continuous_cache' = Promote(continuous_cache, i)
         /\ returned' = continuous_cache[i].data
         /\ call_log' = Append(call_log, [key |-> key, requests |-> 0, raised |-> FALSE,
                                          sent |-> <<>>])
    ELSE /\ continuous_cache' = Store(continuous_cache, key, fetched.data)
         /\ returned' = fetched.data
         /\ call_log' = Append(call_log, [key |-> key, requests |-> fetched.requests,
                                          raised |-> fetched.raised, sent |-> fetched.sent])

\* DatabaseAPI.get_continuous with cache key `key`, when the read of lines
\* 154-168 (request, chunked fallback included) does `fetched`
get_continuous(key, fetched) ==
  LET at == Lookup(continuous_cache, key) IN
  IF at # {}
    THEN LET i == CHOOSE i \in at : TRUE IN
         /\ continuous_cache' = Promote(continuous_cache, i)
         /\ returned' = continuous_cache[i].data
         /\ call_log' = Append(call_log, [key |-> key, requests |-> 0, raised |-> FALSE,
                                          sent |-> <<>>])
    ELSE IF fetched.raised
      THEN /\ UNCHANGED continuous_cache
           /\ returned' = fetched.data
           /\ call_log' = Append(call_log, [key |-> key, requests |-> fetched.requests,
                                            raised |-> TRUE, sent |-> fetched.sent])
      ELSE /\ continuous_cache' = Store(continuous_cache, key, fetched.data)
           /\ returned' = fetched.data
           /\ call_log' = Append(call_log, [key |-> key, requests |-> fetched.requests,
                                            raised |-> FALSE, sent |-> fetched.sent])

\* a call with a key not asked for before
CallFresh(net) ==
  /\ pc = "client"
  /\ fresh < MaxKeys
  /\ get_continuous(fresh + 1, Fetch(fresh + 1, net))
  /\ fresh' = fresh + 1
  /\ UNCHANGED <<recalls, backend, query, direct_db, log_call, supVars, envVars, execVars,
               runVars>>

\* a call that repeats a key
CallAgain(key, net) ==
  /\ pc = "client"
  /\ key <= fresh
  /\ recalls < MaxRecalls
  /\ get_continuous(key, Fetch(key, net))
  /\ recalls' = recalls + 1
  /\ UNCHANGED <<fresh, backend, query, direct_db, log_call, supVars, envVars, execVars,
               runVars>>

InitCache ==
  /\ current_task_id = NoTask
  /\ execution_log = EmptySink
  /\ non_interactive = TRUE
  /\ on_escalate = "halt"
  /\ log_dir = TRUE
  /\ remote_logging_enabled = TRUE
  /\ prompting = FALSE
  /\ local_files = [t \in 1..MaxTasks |-> EmptySink]
  /\ remote_log = EmptySink
  /\ last_write = "none"
  /\ write_raised = NoTask
  /\ disk_ok = TRUE
  /\ skills = SkillNames
  /\ pc = "client"
  /\ call = [skill_name |-> "validate_data", max_retries |-> DEFAULT_MAX_RETRIES, ret |-> "done"]
  /\ attempt = 0
  /\ result = Unset
  /\ invocations = 0
  /\ outcomes = <<>>
  /\ yields = <<>>
  /\ last_exc = Exc("Exception", "e1")
  /\ last_input = NoInput
  /\ final_notified = 0
  /\ IdleRun

NextCache ==
  \/ \E net \in NetOutcomes(fresh + 1) : CallFresh(net)
  \/ \E key \in RepeatedKeys : \E net \in NetOutcomes(key) : CallAgain(key, net)

SpecCache == InitCache /\ [][NextCache]_vars

\* ------------------------------------------------ DatabaseAPI._request
\* DatabaseAPI._request called with what the HTTP session does: it answers
\* with a status and a body, or raises a requests exception. timeout_text says
\* whether the words "timeout" / "timed out" occur in the response body (for an
\* answer) or in str(e) (for an exception).
StatusCodes == {200, 399, 400, 404, 499, 500, 503, 599}
Transports ==
  [kind : {"response"}, status : StatusCodes, timeout_text : BOOLEAN]
    \cup [kind : {"Timeout", "ConnectionError", "HTTPError"}, status : {0},
          timeout_text : BOOLEAN]

\* requests.Response.raise_for_status: HTTPError for 4xx and 5xx
raise_for_status(t) == t.kind = "response" /\ 400 <= t.status /\ t.status < 600

\* variant of IsClientError: 500 counted with the 4xx
IsClientErrorUpTo500(status) == 400 <= status /\ status <= 500

\* line 79: `400 <= status < 500`
IsClientError(status) == 400 <= status /\ status < 500

NoException == [kind |-> "-", cause |-> "-", timeout_text |-> FALSE]
\* what _request returns or raises: the exception carries its class, its
\* __cause__ and whether its message mentions a timeout
_request(t) ==
  IF t.kind = "response" /\ ~raise_for_status(t)
    THEN [raised |-> FALSE, data |-> TRUE, exc |-> NoException]
  ELSE IF t.kind \in {"response", "HTTPError"}
    \* except requests.HTTPError: status is None without e.response
    THEN IF t.kind = "response" /\ IsClientError(t.status)
           THEN [raised |-> TRUE, data |-> FALSE,
                 exc |-> [kind |-> "ModuleError", cause |-> "HTTPError",
                          timeout_text |-> t.timeout_text]]
           ELSE [raised |-> TRUE, data |-> FALSE,
                 exc |-> [kind |-> "NetworkError", cause |-> "HTTPError",
                          timeout_text |-> t.timeout_text]]
  \* except requests.RequestException
  ELSE [raised |-> TRUE, data |-> FALSE,
        exc |-> [kind |-> "NetworkError", cause |-> t.kind,
                 timeout_text |-> t.timeout_text]]

\* lines 176-185
_is_timeout(err) == err.cause = "Timeout" \/ err.timeout_text

\* ------------------------------------------------------------ SpecChunked
\* One DatabaseAPI reading one symbol over the days 1..RangeDays (or without
\* dates) from a backend that holds up to MaxRows rows. Dates are day numbers:
\* date.fromisoformat / isoformat of lines 200-215 map an ISO date to its day
\* and back, and str(trade_date) of ISO dates sorts as the days do. A request
\* for more days than backend.capacity is not answered: the first request of a
\* get_continuous call then ends as backend.fault says, a chunk request as
\* backend.chunk_fault says (in SpecChunked both time out). A request with a
\* limit is answered with that many rows of the range at most.
Days == {1, DEFAULT_CHUNK_DAYS, DEFAULT_CHUNK_DAYS + 1, 900}
Values == {"a", "b"}
BackendRows == [trade_date : Days, v : Values]
RowLists == UNION {[1..n -> BackendRows] : n \in 0..MaxRows}
Limits == {<<>>, <<1>>, <<2>>}
Capacities == {RangeDays, DEFAULT_CHUNK_DAYS, 100, 40}
Keeps == {"first", "last"}
Queries == [start_date : BOOLEAN, end_date : BOOLEAN, limit : Limits]
ReadTimeout == [kind |-> "Timeout", status |-> 0, timeout_text |-> TRUE]

Smaller(a, b) == IF a <= b THEN a ELSE b
Larger(a, b) == IF a >= b THEN a ELSE b
LastIn(S) == CHOOSE i \in S : \A j \in S : j <= i

\* the backend's answer to GET /api/continuous/<symbol> with these params
InRange(rows, start, end) ==
  SelectSeq(rows, LAMBDA r : start <= r.trade_date /\ r.trade_date <= end)
Limited(rows, limit) ==
  IF limit = <<>> THEN rows
  ELSE IF Len(rows) <= limit[1] THEN rows
  ELSE IF backend.keeps = "first" THEN SubSeq(rows, 1, limit[1])
  ELSE SubSeq(rows, Len(rows) - limit[1] + 1, Len(rows))
Response(start, end, limit) == Limited(InRange(backend.rows, start, end), limit)
Unanswered(start, end) == end - start + 1 > backend.capacity
\* the exception _request raises for the request of the days start..end
ErrorOf(t, start, end) ==
  [kind |-> _request(t).exc.kind, cause |-> _request(t).exc.cause,
   timeout_text |-> _request(t).exc.timeout_text, days |-> <<start, end>>]
RaisedError(e) == [of |-> -1, exc |-> e]

\* lines 243-250: by_date[str(td)] = row for each row in turn, then the rows
\* in the order of sorted(by_date.keys())
Deduplicated(all_rows) ==
  LET dated == {i \in 1..Len(all_rows) : all_rows[i].trade_date # 0}
      keys == {all_rows[i].trade_date : i \in dated}
      by_date == [k \in keys |->
                    all_rows[LastIn({i \in dated : all_rows[i].trade_date = k})]]
      sorted(n) == CHOOSE k \in keys : Cardinality({j \in keys : j < k}) = n - 1
  IN [n \in 1..Cardinality(keys) |-> by_date[sorted(n)]]

\* variant of ShrinkAllowed: chunks are split again down to the floor
ShrinkAboveFloor(chunk_days) == chunk_days > MIN_CHUNK_DAYS

\* line 226: `int(chunk_days) > 45`
ShrinkAllowed(chunk_days) == chunk_days > SHRINK_ABOVE_DAYS

\* variant of ChunkEnd: a chunk ends one step after its first day
ChunkEndOneMore(cur, end, chunk_days) == Smaller(cur + Larger(1, chunk_days), end)

\* lines 212-214: step = timedelta(days=max(1, int(chunk_days)));
\* cur_end = min(cur + step - timedelta(days=1), end)
ChunkEnd(cur, end, chunk_days) == Smaller(cur + Larger(1, chunk_days) - 1, end)

RECURSIVE _get_continuous_chunked(_, _, _, _)
RECURSIVE ChunkLoop(_, _, _, _, _, _)

\* lines 211-238: the `while cur <= end` loop, with the rows gathered and the
\* requests sent so far (each with the chunk size it was sent under)
ChunkLoop(cur, end, limit, chunk_days, all_rows, sent) ==
  IF cur > end THEN [raised |-> FALSE, data |-> all_rows, sent |-> sent]
  ELSE
    LET cur_end == ChunkEnd(cur, end, chunk_days)
        request == [start |-> cur, end |-> cur_end, chunk_days |-> chunk_days]
        e == ErrorOf(backend.chunk_fault, cur, cur_end)
    IN
    IF ~Unanswered(cur, cur_end)
      THEN ChunkLoop(cur_end + 1, end, limit, chunk_days,
                     all_rows \o Response(cur, cur_end, limit), Append(sent, request))
    \* except NetworkError as e
    ELSE IF e.kind = "NetworkError" /\ _is_timeout(e) /\ ShrinkAllowed(chunk_days)
      THEN LET rows == _get_continuous_chunked(cur, cur_end, limit,
                                               Larger(MIN_CHUNK_DAYS, chunk_days \div 2))
           IN IF rows.raised
                THEN [raised |-> TRUE, data |-> rows.data,
                      sent |-> Append(sent, request) \o rows.sent]
                ELSE ChunkLoop(cur_end + 1, end, limit, chunk_days,
                               all_rows \o rows.data, Append(sent, request) \o rows.sent)
    ELSE [raised |-> TRUE, data |-> RaisedError(e), sent |-> Append(sent, request)]

_get_continuous_chunked(start, end, limit, chunk_days) ==
  LET gathered == ChunkLoop(start, end, limit, chunk_days, <<>>, <<>>) IN
  IF gathered.raised THEN gathered
  ELSE IF gathered.data = <<>> THEN gathered
  ELSE [gathered EXCEPT !.data = Deduplicated(gathered.data)]

\* variant of FallbackApplies: the dates are not looked at
FallbackOnAnyTimeout(q, e) == _is_timeout(e)

\* line 161: `start_date and end_date and self._is_timeout(e)`
FallbackApplies(q, e) == q.start_date /\ q.end_date /\ _is_timeout(e)

\* lines 154-168: the request for the whole query and, when it raises a
\* NetworkError that is a timeout and both dates were given, the chunked fetch
FetchRange(q) ==
  LET request == [start |-> 1, end |-> RangeDays, chunk_days |-> 0]
      e == ErrorOf(backend.fault, 1, RangeDays)
  IN
  IF ~Unanswered(1, RangeDays)
    THEN [raised |-> FALSE, requests |-> 1, sent |-> <<request>>,
          data |-> Response(1, RangeDays, q.limit)]
  ELSE IF e.kind = "NetworkError" /\ FallbackApplies(q, e)
    THEN LET data == _get_continuous_chunked(1, RangeDays, q.limit, DEFAULT_CHUNK_DAYS)
         IN [raised |-> data.raised, data |-> data.data,
             requests |-> 1 + Len(data.sent), sent |-> <<request>> \o data.sent]
  ELSE [raised |-> TRUE, data |-> RaisedError(e), requests |-> 1, sent |-> <<request>>]

\* one get_continuous call with the arguments of `query`
ReadRange ==
  /\ pc = "client"
  /\ Len(call_log) <= MaxRecalls
  /\ get_continuous(query, FetchRange(query))
  /\ UNCHANGED <<fresh, recalls, backend, query, direct_db, log_call, supVars, envVars, execVars,
               runVars>>

InitChunked ==
  /\ current_task_id = NoTask
  /\ execution_log = EmptySink
  /\ non_interactive = TRUE
  /\ on_escalate = "halt"
  /\ log_dir = TRUE
  /\ remote_logging_enabled = TRUE
  /\ prompting = FALSE
  /\ local_files = [t \in 1..MaxTasks |-> EmptySink]
  /\ remote_log = EmptySink
  /\ last_write = "none"
  /\ write_raised = NoTask
  /\ disk_ok = TRUE
  /\ skills = SkillNames
  /\ pc = "client"
  /\ call = [skill_name |-> "validate_data", max_retries |-> DEFAULT_MAX_RETRIES, ret |-> "done"]
  /\ attempt = 0
  /\ result = Unset
  /\ invocations = 0
  /\ outcomes = <<>>
  /\ yields = <<>>
  /\ last_exc = Exc("Exception", "e1")
  /\ last_input = NoInput
  /\ final_notified = 0
  /\ mode = "-"
  /\ task_id = NoTask
  /\ cfg_positions = <<>>
  /\ task_created = FALSE
  /\ create_attempt = 0
  /\ create_last = "-"
  /\ steps = <<>>
  /\ positions = <<>>
  /\ strategy_results = <<>>
  /\ workers = <<>>
  /\ item = 0
  /\ status_update = NoStatus
  /\ finalized = 0
  /\ continuous_cache = <<>>
  /\ call_log = <<>>
  /\ returned = NoRows
  /\ fresh = 0
  /\ recalls = 0
  /\ direct_db = NoDatabase
  /\ log_call = NoLogCall
  /\ backend \in [rows : RowLists, capacity : Capacities, keeps : Keeps,
                   fault : {ReadTimeout}, chunk_fault : {ReadTimeout}]
  /\ query \in {q \in Queries : q.start_date = q.end_date}

NextChunked == ReadRange

SpecChunked == InitChunked /\ [][NextChunked]_vars

\* ----------------------------------------------------------- SpecFallback
\* The reads of SpecChunked with each date given or not, against a backend
\* whose unanswered requests end in any failure of Transports: the first
\* request of a call as backend.fault, the chunk requests as
\* backend.chunk_fault.
FailingTransports == {t \in Transports : _request(t).raised}
ChunkFaults ==
  {ReadTimeout,
   [kind |-> "response", status |-> 503, timeout_text |-> FALSE],
   [kind |-> "response", status |-> 404, timeout_text |-> TRUE]}
FallbackRowLists ==
  {<<>>, <<[trade_date |-> 1, v |-> "a"], [trade_date |-> 900, v |-> "b"]>>}

InitFallback ==
  /\ current_task_id = NoTask
  /\ execution_log = EmptySink
  /\ non_interactive = TRUE
  /\ on_escalate = "halt"
  /\ log_dir = TRUE
  /\ remote_logging_enabled = TRUE
  /\ prompting = FALSE
  /\ local_files = [t \in 1..MaxTasks |-> EmptySink]
  /\ remote_log = EmptySink
  /\ last_write = "none"
  /\ write_raised = NoTask
  /\ disk_ok = TRUE
  /\ skills = SkillNames
  /\ pc = "client"
  /\ call = [skill_name |-> "validate_data", max_retries |-> DEFAULT_MAX_RETRIES, ret |-> "done"]
  /\ attempt = 0
  /\ result = Unset
  /\ invocations = 0
  /\ outcomes = <<>>
  /\ yields = <<>>
  /\ last_exc = Exc("Exception", "e1")
  /\ last_input = NoInput
  /\ final_notified = 0
  /\ mode = "-"
  /\ task_id = NoTask
  /\ cfg_positions = <<>>
  /\ task_created = FALSE
  /\ create_attempt = 0
  /\ create_last = "-"
  /\ steps = <<>>
  /\ positions = <<>>
  /\ strategy_results = <<>>
  /\ workers = <<>>
  /\ item = 0
  /\ status_update = NoStatus
  /\ finalized = 0
  /\ continuous_cache = <<>>
  /\ call_log = <<>>
  /\ returned = NoRows
  /\ fresh = 0
  /\ recalls = 0
  /\ direct_db = NoDatabase
  /\ log_call = NoLogCall
  /\ backend \in [rows : FallbackRowLists, capacity : Capacities, keeps : {"first"},
                   fault : FailingTransports, chunk_fault : ChunkFaults]
  /\ query \in Queries

NextFallback == ReadRange

SpecFallback == InitFallback /\ [][NextFallback]_vars

\* ------------------------------------------------------------ SpecSymbols
\* One DatabaseAPI reading the symbols 1, 2, 3, ... over the days 1..RangeDays,
\* and the symbols of RepeatedKeys again, from a backend that answers the
\* whole range, answers only the chunks of the fallback, or not even those.
\* The reads of a symbol of RepeatedKeys are made with or without dates (no
\* fallback without them); the other reads give both dates.
SymbolBackends ==
  [rows : {<<[trade_date |-> 1, v |-> "a"], [trade_date |-> 900, v |-> "b"]>>},
   capacity : {RangeDays, DEFAULT_CHUNK_DAYS, 40}, keeps : {"first"},
   fault : {ReadTimeout}, chunk_fault : {ReadTimeout}]
Dated == [start_date |-> TRUE, end_date |-> TRUE, limit |-> <<>>]
SymbolQueries(symbol) == IF symbol \in RepeatedKeys THEN {Dated, NoQuery} ELSE {Dated}

\* line 147: cache_key = (base_symbol, start_date, end_date, limit)
cache_key(base_symbol, q) ==
  [base_symbol |-> base_symbol, start_date |-> q.start_date, end_date |-> q.end_date,
   limit |-> q.limit]

\* get_continuous for a symbol not read before
ReadSymbol(q) ==
  /\ pc = "client"
  /\ fresh < MaxKeys
  /\ get_continuous(cache_key(fresh + 1, q), FetchRange(q))
  /\ fresh' = fresh + 1
  /\ UNCHANGED <<recalls, backend, query, direct_db, log_call, supVars, envVars, execVars,
               runVars>>

\* get_continuous for a symbol read before, once in a behaviour
ReadSymbolAgain(base_symbol, q) ==
  /\ pc = "client"
  /\ base_symbol <= fresh
  /\ recalls = 0
  /\ get_continuous(cache_key(base_symbol, q), FetchRange(q))
  /\ recalls' = recalls + 1
  /\ UNCHANGED <<fresh, backend, query, direct_db, log_call, supVars, envVars, execVars,
               runVars>>

InitSymbols ==
  /\ current_task_id = NoTask
  /\ execution_log = EmptySink
  /\ non_interactive = TRUE
  /\ on_escalate = "halt"
  /\ log_dir = TRUE
  /\ remote_logging_enabled = TRUE
  /\ prompting = FALSE
  /\ local_files = [t \in 1..MaxTasks |-> EmptySink]
  /\ remote_log = EmptySink
  /\ last_write = "none"
  /\ write_raised = NoTask
  /\ disk_ok = TRUE
  /\ skills = SkillNames
  /\ pc = "client"
  /\ call = [skill_name |-> "validate_data", max_retries |-> DEFAULT_MAX_RETRIES, ret |-> "done"]
  /\ attempt = 0
  /\ result = Unset
  /\ invocations = 0
  /\ outcomes = <<>>
  /\ yields = <<>>
  /\ last_exc = Exc("Exception", "e1")
  /\ last_input = NoInput
  /\ final_notified = 0
  /\ mode = "-"
  /\ task_id = NoTask
  /\ cfg_positions = <<>>
  /\ task_created = FALSE
  /\ create_attempt = 0
  /\ create_last = "-"
  /\ steps = <<>>
  /\ positions = <<>>
  /\ strategy_results = <<>>
  /\ workers = <<>>
  /\ item = 0
  /\ status_update = NoStatus
  /\ finalized = 0
  /\ continuous_cache = <<>>
  /\ call_log = <<>>
  /\ returned = NoRows
  /\ fresh = 0
  /\ recalls = 0
  /\ direct_db = NoDatabase
  /\ log_call = NoLogCall
  /\ backend \in SymbolBackends
  /\ query = NoQuery

NextSymbols ==
  \/ \E q \in SymbolQueries(fresh + 1) : ReadSymbol(q)
  \/ \E base_symbol \in RepeatedKeys : \E q \in SymbolQueries(base_symbol) :
       ReadSymbolAgain(base_symbol, q)

SpecSymbols == InitSymbols /\ [][NextSymbols]_vars

\* ------------------------------------------------------------- SpecRanges
\* _get_continuous_chunked called once for the days start..end, start before,
\* on or after end, with each chunk size the program passes: the default and
\* the sizes the recursion of line 232 derives from it.
RangeEnds == {1, 2, 200, DEFAULT_CHUNK_DAYS, DEFAULT_CHUNK_DAYS + 1, 900, RangeDays}
\* line 232: chunk_days=max(30, int(chunk_days) // 2)
NextChunkDays(chunk_days) == Larger(MIN_CHUNK_DAYS, chunk_days \div 2)
ChunkSizes ==
  {DEFAULT_CHUNK_DAYS, NextChunkDays(DEFAULT_CHUNK_DAYS),
   NextChunkDays(NextChunkDays(DEFAULT_CHUNK_DAYS)),
   NextChunkDays(NextChunkDays(NextChunkDays(DEFAULT_CHUNK_DAYS)))}

\* one _get_continuous_chunked call
FetchChunked(start, end, chunk_days) ==
  /\ pc = "client"
  /\ call_log = <<>>
  /\ LET fetched == _get_continuous_chunked(start, end, <<>>, chunk_days) IN
       /\ returned' = fetched.data
       /\ call_log' = <<[key |-> [start |-> start, end |-> end, chunk_days |-> chunk_days],
                         requests |-> Len(fetched.sent), raised |-> fetched.raised,
                         sent |-> fetched.sent]>>
  /\ UNCHANGED <<continuous_cache, fresh, recalls, backend, query, direct_db, log_call,
                 supVars, envVars, execVars, runVars>>

InitRanges ==
  /\ current_task_id = NoTask
  /\ execution_log = EmptySink
  /\ non_interactive = TRUE
  /\ on_escalate = "halt"
  /\ log_dir = TRUE
  /\ remote_logging_enabled = TRUE
  /\ prompting = FALSE
  /\ local_files = [t \in 1..MaxTasks |-> EmptySink]
  /\ remote_log = EmptySink
  /\ last_write = "none"
  /\ write_raised = NoTask
  /\ disk_ok = TRUE
  /\ skills = SkillNames
  /\ pc = "client"
  /\ call = [skill_name |-> "validate_data", max_retries |-> DEFAULT_MAX_RETRIES, ret |-> "done"]
  /\ attempt = 0
  /\ result = Unset
  /\ invocations = 0
  /\ outcomes = <<>>
  /\ yields = <<>>
  /\ last_exc = Exc("Exception", "e1")
  /\ last_input = NoInput
  /\ final_notified = 0
  /\ mode = "-"
  /\ task_id = NoTask
  /\ cfg_positions = <<>>
  /\ task_created = FALSE
  /\ create_attempt = 0
  /\ create_last = "-"
  /\ steps = <<>>
  /\ positions = <<>>
  /\ strategy_results = <<>>
  /\ workers = <<>>
  /\ item = 0
  /\ status_update = NoStatus
  /\ finalized = 0
  /\ continuous_cache = <<>>
  /\ call_log = <<>>
  /\ returned = NoRows
  /\ fresh = 0
  /\ recalls = 0
  /\ direct_db = NoDatabase
  /\ log_call = NoLogCall
  /\ backend \in [rows : FallbackRowLists, capacity : Capacities, keeps : {"first"},
                   fault : {ReadTimeout}, chunk_fault : ChunkFaults]
  /\ query = NoQuery

NextRanges ==
  \E start \in RangeEnds, end \in RangeEnds, chunk_days \in ChunkSizes :
    FetchChunked(start, end, chunk_days)

SpecRanges == InitRanges /\ [][NextRanges]_vars



\* ------------------------------------------------------------ SpecRequest
\* _request called up to MaxRequests times with any of Transports.
\* one _request call
DoRequest(t) ==
  /\ pc = "client"
  /\ Len(call_log) < MaxRequests
  /\ returned' = _request(t)
  /\ call_log' = Append(call_log, [key |-> t, requests |-> 1,
                                   raised |-> _request(t).raised, sent |-> <<t>>])
  /\ UNCHANGED <<continuous_cache, fresh, recalls, backend, query, direct_db, log_call>>
  /\ UNCHANGED <<supVars, envVars, execVars, runVars>>

NextRequest == \E t \in Transports : DoRequest(t)

SpecRequest == InitCache /\ [][NextRequest]_vars

\* ----------------------------------------------------------------- SpecDb
\* The direct SQL methods of one DatabaseAPI, called up to MaxRequests times
\* with empty or non-empty arguments, with or without a connection string,
\* against a server that accepts connections or not.
Payloads == {"empty", "filled"}
SqlOutcomes == {"ok", "raise"}

\* lines 33-38
connect(db) ==
  IF ~db.connection_string
    THEN [raised |-> TRUE, exc |-> "ConfigurationError", db |-> db]
  ELSE IF db._conn \in {"None", "closed"}
    THEN IF db.reachable
           THEN [raised |-> FALSE, exc |-> "-", db |-> [db EXCEPT !._conn = "open"]]
           ELSE [raised |-> TRUE, exc |-> "OperationalError", db |-> db]
  ELSE [raised |-> FALSE, exc |-> "-", db |-> db]

\* one call of a direct SQL method: what it did to the database, what it
\* returned or raised, and its entry in the call history
SqlCall(op, args, done) ==
  /\ pc = "client"
  /\ Len(call_log) < MaxRequests
  /\ direct_db' = done.db
  /\ returned' = [raised |-> done.raised, exc |-> done.exc]
  /\ call_log' = Append(call_log,
       [key |-> [op |-> op, args |-> args], raised |-> done.raised,
        requests |-> Len(done.db.statements) - Len(direct_db.statements),
        sent |-> SubSeq(done.db.statements, Len(direct_db.statements) + 1,
                        Len(done.db.statements))])
  /\ UNCHANGED <<continuous_cache, fresh, recalls, backend, query, log_call>>
  /\ UNCHANGED <<supVars, envVars, execVars, runVars>>

\* cur.execute(...) and conn.commit() of one statement
Execute(db, statement, sql) ==
  [raised |-> sql = "raise", exc |-> IF sql = "raise" THEN "DatabaseError" ELSE "-",
   db |-> [db EXCEPT !.statements = Append(@, statement)]]

\* the order of lines 297-299 and 315-319: connect() first, then the checks
AfterConnect(conn, empty, checked) == IF conn.raised THEN conn ELSE checked

\* DatabaseAPI.write (lines 295-311)
Write(data, sql) ==
  LET conn == connect(direct_db) IN
  SqlCall("write", <<data>>,
    AfterConnect(conn, data = "empty",
      IF data = "empty"
        THEN [raised |-> TRUE, exc |-> "ModuleError", db |-> conn.db]
        ELSE Execute(conn.db, "INSERT", sql)))

\* DatabaseAPI.update_where (lines 313-337)
UpdateWhere(data, where, sql) ==
  LET conn == connect(direct_db) IN
  SqlCall("update_where", <<data, where>>,
    AfterConnect(conn, data = "empty" \/ where = "empty",
      IF data = "empty" \/ where = "empty"
        THEN [raised |-> TRUE, exc |-> "ModuleError", db |-> conn.db]
        ELSE Execute(conn.db, "UPDATE", sql)))

\* DatabaseAPI.close (lines 40-42)
Close ==
  /\ pc = "client"
  /\ direct_db._conn = "open"
  /\ direct_db' = [direct_db EXCEPT !._conn = "closed"]
  /\ UNCHANGED <<continuous_cache, call_log, returned, fresh, recalls, backend, query, log_call>>
  /\ UNCHANGED <<supVars, envVars, execVars, runVars>>

InitDb ==
  /\ current_task_id = NoTask
  /\ execution_log = EmptySink
  /\ non_interactive = TRUE
  /\ on_escalate = "halt"
  /\ log_dir = TRUE
  /\ remote_logging_enabled = TRUE
  /\ prompting = FALSE
  /\ local_files = [t \in 1..MaxTasks |-> EmptySink]
  /\ remote_log = EmptySink
  /\ last_write = "none"
  /\ write_raised = NoTask
  /\ disk_ok = TRUE
  /\ skills = SkillNames
  /\ pc = "client"
  /\ call = [skill_name |-> "validate_data", max_retries |-> DEFAULT_MAX_RETRIES, ret |-> "done"]
  /\ attempt = 0
  /\ result = Unset
  /\ invocations = 0
  /\ outcomes = <<>>
  /\ yields = <<>>
  /\ last_exc = Exc("Exception", "e1")
  /\ last_input = NoInput
  /\ final_notified = 0
  /\ mode = "-"
  /\ task_id = NoTask
  /\ cfg_positions = <<>>
  /\ task_created = FALSE
  /\ create_attempt = 0
  /\ create_last = "-"
  /\ steps = <<>>
  /\ positions = <<>>
  /\ strategy_results = <<>>
  /\ workers = <<>>
  /\ item = 0
  /\ status_update = NoStatus
  /\ finalized = 0
  /\ continuous_cache = <<>>
  /\ call_log = <<>>
  /\ returned = NoRows
  /\ fresh = 0
  /\ recalls = 0
  /\ backend = NoBackend
  /\ query = NoQuery
  /\ direct_db \in [connection_string : BOOLEAN, reachable : BOOLEAN, _conn : {"None"},
                     statements : {<<>>}]
  /\ log_call = NoLogCall

NextDb ==
  \/ \E data \in Payloads, sql \in SqlOutcomes : Write(data, sql)
  \/ \E data \in Payloads, where \in Payloads, sql \in SqlOutcomes :
       UpdateWhere(data, where, sql)
  \/ Close

SpecDb == InitDb /\ [][NextDb]_vars

\* ---------------------------------------------------------------- SpecLog
\* A Supervisor constructed with some max_log_data_chars, whose _log is called
\* by on_skill_start (a dict of parameters), on_skill_complete (result.data of
\* any type, or a dict for a failure) and on_skill_error (str(error)), with
\* payloads whose text has up to MaxChars characters between its brackets.
Caps == 0..MaxChars
LogPayloads ==
  {DictPayload(n) : n \in 0..MaxChars} \cup {StrPayload(n) : n \in 0..MaxChars}
    \cup {OtherPayload(n) : n \in 0..MaxChars} \cup {NonePayload}
LogEvents == {"START", "COMPLETE", "ERROR"}
\* lines 37-55: the payloads each caller can pass
PayloadAllowed(event, data) ==
  IF event = "START" THEN data.type = "dict"
  ELSE IF event = "COMPLETE" THEN TRUE
  ELSE data.type \in {"dict", "str"}

\* what the log endpoint does with the POST of write_log: the transport as in
\* _request, and for an answer that passes raise_for_status the body: JSON
\* objects with success true, false or absent, a JSON value that is no
\* object, or text that is no JSON
LogBodies == {"success_true", "success_false", "success_missing", "not_a_dict", "not_json"}
LogTransports ==
  {t \in Transports : ~t.timeout_text /\ (t.kind = "response" => t.status \in {200, 404, 503})}
LogAnswers ==
  {a \in [transport : LogTransports, body : LogBodies \cup {"-"}] :
     (a.body # "-") <=> ~_request(a.transport).raised}
Accepted == [transport |-> [kind |-> "response", status |-> 200, timeout_text |-> FALSE],
             body |-> "success_true"]

\* variant of write_log: a body without success=true is an error
WriteLogRaisesOnRejection(answer) ==
  IF _request(answer.transport).raised THEN "raise"
  ELSE IF answer.body = "success_true" THEN "ok" ELSE "raise"

\* DatabaseAPI.write_log (database.py 252-263): "ok" is `return True`,
\* "rejected" is `return False`, "raise" an exception of _request, of
\* resp.json() or the ModuleError of line 259
write_log(answer) ==
  IF _request(answer.transport).raised THEN "raise"
  ELSE IF answer.body \in {"not_json", "not_a_dict"} THEN "raise"
  ELSE IF answer.body = "success_true" THEN "ok"
  ELSE "rejected"

\* one call of _log, whole: the entry goes to the sinks as in every other
\* specification, here with its message and data fields and with the answer
\* of the log endpoint when the entry is sent (supervisor.py 138-140)
LogCall(event, data, answer) ==
  /\ MayLog
  /\ PayloadAllowed(event, data)
  /\ _log(event, call.skill_name, write_log(answer))
  /\ log_call' = [max_log_data_chars |-> log_call.max_log_data_chars, data |-> data,
                  entry |-> EntryPayload(data, log_call.max_log_data_chars),
                  answer |-> IF RemoteWriteDue THEN answer ELSE NoAnswer]
  /\ UNCHANGED <<prompting, execVars, runVars>>
  /\ UNCHANGED <<continuous_cache, call_log, returned, fresh, recalls, backend, query,
                 direct_db>>

InitLog ==
  /\ current_task_id = NoTask
  /\ execution_log = EmptySink
  /\ non_interactive = TRUE
  /\ on_escalate = "halt"
  /\ log_dir = TRUE
  /\ remote_logging_enabled = TRUE
  /\ prompting = FALSE
  /\ local_files = [t \in 1..MaxTasks |-> EmptySink]
  /\ remote_log = EmptySink
  /\ last_write = "none"
  /\ write_raised = NoTask
  /\ disk_ok = TRUE
  /\ skills = SkillNames
  /\ pc = "supervisor"
  /\ call = [skill_name |-> "validate_data", max_retries |-> DEFAULT_MAX_RETRIES, ret |-> "done"]
  /\ attempt = 0
  /\ result = Unset
  /\ invocations = 0
  /\ outcomes = <<>>
  /\ yields = <<>>
  /\ last_exc = Exc("Exception", "e1")
  /\ last_input = NoInput
  /\ final_notified = 0
  /\ mode = "-"
  /\ task_id = NoTask
  /\ cfg_positions = <<>>
  /\ task_created = FALSE
  /\ create_attempt = 0
  /\ create_last = "-"
  /\ steps = <<>>
  /\ positions = <<>>
  /\ strategy_results = <<>>
  /\ workers = <<>>
  /\ item = 0
  /\ status_update = NoStatus
  /\ finalized = 0
  /\ continuous_cache = <<>>
  /\ call_log = <<>>
  /\ returned = NoRows
  /\ fresh = 0
  /\ recalls = 0
  /\ backend = NoBackend
  /\ query = NoQuery
  /\ direct_db = NoDatabase
  /\ \E c \in Caps : log_call = [NoLogCall EXCEPT !.max_log_data_chars = c]

NextLog == \E event \in LogEvents, data \in LogPayloads : LogCall(event, data, Accepted)

SpecLog == InitLog /\ [][NextLog]_vars

\* ----------------------------------------------------------- SpecWriteLog
\* The same Supervisor given task ids and logging small payloads, the log
\* endpoint answering each write in every way.
InitWriteLog ==
  /\ InitLog
  /\ log_call.max_log_data_chars = MaxChars

NextWriteLog ==
  \/ SupSetTaskId
  \/ \E event \in LogEvents, answer \in LogAnswers : LogCall(event, DictPayload(0), answer)

SpecWriteLog == InitWriteLog /\ [][NextWriteLog]_vars

\* ------------------------------------------------------ claims, SpecExec
Registered == call.skill_name \in skills
Returned_ == pc = "done"
IsRetryFail(c) ==
  c.tag = "return" /\ ~c.success /\ c.retry /\ ~c.skipped /\ ~c.halted
IsSuccess(c) == c.tag = "return" /\ c.success
IsPlainFail(c) ==
  c.tag \in {"return", "none"} /\ ~c.success /\ ~c.retry /\ ~c.skipped /\ ~c.halted
NoFlags(res) == ~res.retry /\ ~res.skipped /\ ~res.halted
AllRetryFail(cs) == \A i \in 1..Len(cs) : IsRetryFail(cs[i])
LastLogged == execution_log.recent[Len(execution_log.recent)]

\* C1: with max_retries = N >= 1 and a registered skill that returns a
\* retry-flagged failure on every attempt, the call returns only after exactly N
\* invocations, its result is the failure "Max retries exceeded" with no flag
\* set, and that failure was given to on_skill_complete exactly once (an ERROR
\* event, the last one logged).
C1_RetryExhaustion ==
  (Returned_ /\ Registered /\ call.max_retries >= 1 /\ AllRetryFail(outcomes))
    => /\ invocations = call.max_retries
       /\ Len(outcomes) = call.max_retries
       /\ result = MaxRetriesExceeded
       /\ result.error = "Max retries exceeded" /\ ~result.success /\ NoFlags(result)
       /\ final_notified = 1
       /\ LastLogged = LogEntry(call.skill_name, "ERROR")

C1_Witness ==
  /\ Returned_ /\ Registered /\ call.max_retries = 3
  /\ Len(outcomes) = 3 /\ AllRetryFail(outcomes)
  /\ result = MaxRetriesExceeded /\ final_notified = 1

\* C2: k retry-flagged failures (0 <= k < N) followed by a success on attempt
\* k+1: the call has returned that success after exactly k+1 invocations and no
\* "Max retries exceeded" result was produced.
C2_RetryThenSuccess ==
  LET n == Len(outcomes) IN
  (n >= 1 /\ IsSuccess(outcomes[n]) /\ AllRetryFail(SubSeq(outcomes, 1, n - 1)))
    => /\ Returned_
       /\ n <= call.max_retries
       /\ invocations = n
       /\ result.success /\ result = yields[n]
       /\ result.data.present = outcomes[n].payload
       /\ result # MaxRetriesExceeded
       /\ final_notified = 0

C2_Witness ==
  /\ Returned_ /\ call.max_retries = 3 /\ invocations = 3
  /\ AllRetryFail(SubSeq(outcomes, 1, 2)) /\ IsSuccess(outcomes[3])
  /\ result = Ok(DataOf(<<"p1">>))

\* C3: an attempt whose result has halted or skipped set (returned by the skill,
\* with or without the retry flag, or produced by the Supervisor for a raised
\* exception) is the last attempt of the call, and the call returns that result.
C3_HaltedSkippedTerminal ==
  \A i \in 1..Len(yields) :
    (yields[i].halted \/ yields[i].skipped)
      => /\ i = Len(yields)
         /\ invocations = i
         /\ Returned_
         /\ result = yields[i]

C3_Witness ==
  /\ Returned_ /\ call.max_retries = 3 /\ invocations = 2
  /\ result = HaltedAndRetry

\* a second reachable case of C3: the Supervisor turned a raised exception into
\* skipped, with attempts left
C3_WitnessFromException ==
  /\ Returned_ /\ call.max_retries = 3 /\ invocations = 1
  /\ outcomes[1].tag = "raise" /\ result = SkippedResult

\* C4: a first attempt that returns a plain failure (no flag set), or returns no
\* result at all, ends the call: exactly one invocation, that failure returned,
\* whatever max_retries >= 1.
C4_PlainFailureNotRetried ==
  (Len(outcomes) >= 1 /\ IsPlainFail(outcomes[1]))
    => /\ Returned_
       /\ invocations = 1
       /\ Len(outcomes) = 1
       /\ ~result.success /\ NoFlags(result)
       /\ result.error = (IF outcomes[1].tag = "none" THEN "Skill returned None" ELSE "E_skill")
       /\ final_notified = 0

C4_Witness ==
  /\ Returned_ /\ call.max_retries = 3 /\ invocations = 1
  /\ outcomes[1].tag = "none" /\ result = ReturnedNone

\* C5: the non-interactive escalation table.  For the latest exception given to
\* on_skill_error: the result is a failure with exactly one of retry / skipped /
\* halted; NetworkError gives retry whatever the default; any other kind gives
\* retry, skipped or halted by the default (retry, skip, halt), halted carrying
\* the text of the exception.
ExactlyOneFlag(res) ==
  Cardinality({f \in {"retry", "skipped", "halted"} :
                 (f = "retry" /\ res.retry) \/ (f = "skipped" /\ res.skipped)
                 \/ (f = "halted" /\ res.halted)}) = 1

C5_EscalationTable ==
  LET n == Len(outcomes) IN
  (n >= 1 /\ outcomes[n].tag = "raise" /\ non_interactive)
    => /\ Len(yields) = n
       /\ ~yields[n].success
       /\ ExactlyOneFlag(yields[n])
       /\ last_exc.kind = "NetworkError" => yields[n].retry
       /\ (last_exc.kind # "NetworkError" /\ on_escalate = "retry") => yields[n].retry
       /\ (last_exc.kind # "NetworkError" /\ on_escalate = "skip") => yields[n].skipped
       /\ (last_exc.kind # "NetworkError" /\ on_escalate = "halt")
            => (yields[n].halted /\ yields[n].error = last_exc.text)

C5_Witness ==
  /\ non_interactive /\ on_escalate = "halt"
  /\ Len(outcomes) = 1 /\ outcomes[1].tag = "raise"
  /\ last_exc = Exc("DataValidationError", "e2")
  /\ result = HaltedResult("e2")

\* C7: once a write_log call raised, remote logging is off and stays off, and no
\* write_log call is made, until set_task_id is called for another task.
C7_DegradationPermanent ==
  [][ /\ (execution_log' # execution_log /\ last_write' = "raise")
           => ~remote_logging_enabled'
      /\ (~remote_logging_enabled /\ current_task_id' = current_task_id)
           => (remote_log' = remote_log /\ ~remote_logging_enabled') ]_vars

\* task 1: a write raised, a later event made no remote call; task 2: remote
\* logging is on again and the event was sent
C7_Witness ==
  /\ current_task_id = 2 /\ write_raised = 1 /\ remote_logging_enabled
  /\ last_write = "ok"
  /\ Len(execution_log.recent) = 3
  /\ \A i \in 1..3 : execution_log.recent[i].task_id = (IF i = 3 THEN 2 ELSE 1)
  /\ Len(remote_log.recent) = 2
  /\ remote_log.recent[1].task_id = 1 /\ remote_log.recent[2].task_id = 2

\* a log event: _log appended to the in-memory log
Logged == execution_log' # execution_log
LocalLineAdded ==
  /\ Len(local_files'[current_task_id].recent) = Len(local_files[current_task_id].recent) + 1
  /\ local_files'[current_task_id].recent[Len(local_files'[current_task_id].recent)]
       = execution_log'.recent[Len(execution_log'.recent)]
MemoryEntryAdded ==
  /\ Len(execution_log'.recent) = Len(execution_log.recent) + 1
  /\ execution_log'.recent[Len(execution_log'.recent)].task_id = current_task_id

InCreation == pc \in {"run_start", "create_task"}
NothingRunYet ==
  /\ invocations = 0 /\ steps = <<>> /\ workers = <<>>
  /\ Entries(execution_log) = {}
ErrorLogged(skill_name) == LogEntry(skill_name, "ERROR") \in Entries(execution_log)

\* a NetworkError raised under _execute_skill: ERROR is logged, the attempt ends
\* with the retry decision, and the next attempt follows while attempts remain
C6_ViaExecuteSkill ==
  \A i \in 1..Len(outcomes) :
    outcomes[i].kind = "NetworkError" =>
      /\ ErrorLogged(call.skill_name)
      /\ Len(yields) >= i /\ yields[i] = RetryResult
      /\ (i = Len(outcomes) /\ i < call.max_retries)
           => (pc = "exec_loop" /\ attempt = i /\ attempt < call.max_retries)
\* a NetworkError raised in a worker of the smart-mode pool: the same treatment
C6_InWorkers ==
  \A i \in DOMAIN workers :
    (workers[i].state = "collected" /\ workers[i].kind = "NetworkError") =>
      /\ ErrorLogged("backtest_strategy")
      /\ workers[i].invoked >= 2
\* C6: every NetworkError raised by a skill invocation is classified by the
\* Supervisor (an ERROR event is logged and the attempt ends with the retry
\* decision) and the skill is invoked again while attempts remain, in every
\* stage of both modes, the per-item analysis of smart mode included.
C6_NetworkErrorRetried == C6_ViaExecuteSkill /\ C6_InWorkers

\* C9: when every task-creation attempt of a run failed, remote logging is off
\* from the start of the validate stage on, write_log is never called in the
\* run, the validate stage is the first stage executed, and a finished run has
\* recorded validate and run _finalize_task once.
C9_CreationFailureDegrades ==
  (~InCreation /\ ~task_created) =>
    /\ create_attempt = 3 /\ create_last \in {"false", "raise"}
    /\ pc # "created" => ~remote_logging_enabled
    /\ Entries(remote_log) = {} /\ last_write = "none" /\ write_raised = NoTask
    /\ pc # "crashed"
    /\ (pc # "created" /\ steps = <<>>)
         => (call.skill_name = "validate_data"
             /\ pc \in {"exec_start", "exec_loop", "exec_prompt", "after_validate"})
    /\ pc = "finished"
         => (finalized = 1 /\ steps # <<>> /\ steps[1].skill = "validate_data"
             /\ status_update.task_id = current_task_id)

C9_Witness ==
  /\ pc = "finished" /\ ~task_created /\ create_attempt = 3 /\ finalized = 1
  /\ Len(steps) >= 4
  /\ LogEntry("validate_data", "START") \in Entries(execution_log)
  /\ LogEntry("validate_data", "START") \in Entries(local_files[current_task_id])
  /\ Entries(remote_log) = {}

\* create_attempt counts the create_task calls of the run
C10_Bounds ==
  /\ create_attempt <= 3
  /\ ~InCreation => create_attempt >= 1
  /\ (InCreation \/ pc = "created") => NothingRunYet
  /\ task_created <=> create_last = "true"
  /\ (create_last \in {"false", "raise"} /\ create_attempt < 3) => pc = "create_task"
  /\ (create_last = "true" \/ create_attempt = 3) => ~InCreation
  /\ pc # "crashed"
\* a step that calls create_task
C10_CallStep ==
  create_attempt' # create_attempt
    => /\ create_attempt' = create_attempt + 1
       /\ create_last # "true"
       /\ NothingRunYet
\* C10: create_task is called at least once and at most 3 times in a run, only
\* before any skill is invoked; no call follows one that returned true; a
\* raising call counts as a failed attempt (the loop goes on while attempts
\* remain, task_created stays false) and the run does not crash.
C10_TaskCreationBounded == []C10_Bounds /\ [][C10_CallStep]_vars

C10_Witness ==
  /\ pc = "finished" /\ create_attempt = 3 /\ create_last = "raise"
  /\ ~task_created /\ finalized = 1

C10_WitnessBreak ==
  /\ pc = "finished" /\ create_attempt = 2 /\ create_last = "true" /\ task_created


ValidateFailed == steps # <<>> /\ ~steps[1].result.success
LoggedSkills == {e.skill_name : e \in Entries(execution_log)}

\* C11: in both modes, once the validate stage has ended unsuccessfully (plain
\* failure, skipped, halted or max retries exceeded) no analyze, aggregate or
\* report skill is invoked, the step history is exactly the validate step, and
\* the run is at _finalize_task or has run it once.
C11_ValidateFailureStops ==
  ValidateFailed =>
    /\ steps = <<Step("validate_data", "-", steps[1].result)>>
    /\ call.skill_name = "validate_data"
    /\ LoggedSkills = {"validate_data"}
    /\ workers = <<>> /\ strategy_results = <<>> /\ positions = <<>>
    /\ pc \in {"finalize", "finished"}
    /\ pc = "finished" => (finalized = 1 /\ status_update.status \in {"failed", "halted"})
    /\ pc = "finalize" => finalized = 0

C11_Witness ==
  /\ pc = "finished" /\ finalized = 1
  /\ steps = <<Step("validate_data", "-", MaxRetriesExceeded)>>
  /\ mode = "smart"

C11_WitnessHalted ==
  /\ pc = "finished" /\ steps # <<>> /\ steps[1].result.halted /\ mode = "specified"

C11_WitnessSkipped ==
  /\ pc = "finished" /\ steps # <<>> /\ steps[1].result.skipped


\* ------------------------------------------------------ claims, SpecItems
ValidatePassed ==
  /\ steps # <<>> /\ steps[1].skill = "validate_data" /\ steps[1].result.success
  /\ steps[1].result.data.present /\ steps[1].result.data.passed # <<>>
PassedItems == steps[1].result.data.passed
AnalysisSteps == {i \in 1..Len(steps) : steps[i].skill = "backtest_strategy"}
StepsFor(p) == Cardinality({i \in AnalysisSteps : steps[i].position = p})
Occurrences(l, p) == Cardinality({i \in 1..Len(l) : l[i] = p})
NoRepeatedItem(l) == \A i, j \in 1..Len(l) : l[i] = l[j] => i = j
\* the analyze stage is over: the aggregate stage has been called
AggregateCalled == call.skill_name \in {"backtest_portfolio", "generate_report"}

\* the same for passed lists without a repeated item
C12_WithoutRepeatedItem ==
  (ValidatePassed /\ NoRepeatedItem(PassedItems)) =>
    /\ \A p \in Positions : StepsFor(p) <= Occurrences(PassedItems, p)
    /\ AggregateCalled => \A p \in Positions : StepsFor(p) = Occurrences(PassedItems, p)

\* in smart mode the steps are one per distinct item, whatever the list
C12_SmartOnePerDistinctItem ==
  (ValidatePassed /\ AggregateCalled /\ mode = "smart") =>
    \A p \in Positions : StepsFor(p) = (IF Occurrences(PassedItems, p) > 0 THEN 1 ELSE 0)

\* in specified mode the steps are one per entry of the list
C12_SpecifiedOnePerEntry ==
  (ValidatePassed /\ AggregateCalled /\ mode = "specified") =>
    \A p \in Positions : StepsFor(p) = Occurrences(PassedItems, p)

\* C12: when validate succeeds with a non-empty passed list, then in both modes
\* and whatever the analyses do, the run never records more than one analysis
\* step for an item of the passed list, records exactly one for each of them by
\* the time the aggregate stage is called, and none for any other item.
C12_AnalyzeCoversPassed ==
  ValidatePassed =>
    /\ \A p \in Positions : StepsFor(p) <= 1
    /\ \A p \in Positions : Occurrences(PassedItems, p) = 0 => StepsFor(p) = 0
    /\ AggregateCalled =>
         \A p \in Positions : Occurrences(PassedItems, p) > 0 => StepsFor(p) = 1


HasStep(skill) == \E k \in 1..Len(steps) : steps[k].skill = skill
\* the recorded step of worker i is what that worker returned or raised
RecordedAsReturned(i) ==
  \E k \in AnalysisSteps :
    /\ steps[k].position = workers[i].position
    /\ steps[k].result.success = ~workers[i].raw.has_error
    /\ workers[i].raw.has_error => steps[k].result = Failure(workers[i].raw.error)
    /\ workers[i].raised => steps[k].result.error \in ErrorTexts

SomeWorkerHung == \E i \in DOMAIN workers : workers[i].state = "hung"

\* what the code does with a worker that never returns: the run stays in the
\* collection loop and nothing is recorded for that worker
C14_HungWorkerBlocksRun ==
  \A i \in DOMAIN workers :
    workers[i].state = "hung" =>
      /\ pc = "pool" /\ AnalysisSteps = {} /\ finalized = 0
      /\ ~HasStep("backtest_portfolio")
      /\ NoRepeatedItem(positions) =>
           \A k \in 1..Len(strategy_results) :
             strategy_results[k].position # workers[i].position

\* C14: in smart mode a worker that never returns is abandoned: its item is
\* recorded as a failed step and the run goes on through aggregate and report
\* to the end of finalization.
C14_TimeoutAbandonsWorker ==
  SomeWorkerHung ~>
    (/\ pc = "finished" /\ finalized = 1
     /\ HasStep("backtest_portfolio") /\ HasStep("generate_report")
     /\ \A i \in DOMAIN workers :
          workers[i].state = "hung" =>
            \E k \in AnalysisSteps :
              steps[k].position = workers[i].position /\ ~steps[k].result.success)


StepsOf(skill) == {k \in 1..Len(steps) : steps[k].skill = skill}
InAggregate == call.skill_name = "backtest_portfolio" /\ ~HasStep("backtest_portfolio")
\* the latest analysis step of item p
LastStepFor(p) ==
  CHOOSE k \in AnalysisSteps :
    steps[k].position = p /\ \A j \in AnalysisSteps : steps[j].position = p => j <= k
\* the mapping given to the aggregate stage holds the outcome of item p
OutcomeReceived(p) ==
  \E e \in 1..Len(strategy_results) :
    /\ strategy_results[e].position = p
    /\ IF mode = "smart"
         THEN steps[LastStepFor(p)].result.success = ~strategy_results[e].value.has_error
         ELSE steps[LastStepFor(p)].result = strategy_results[e].value
SomeAnalysisFailedNoneHalted ==
  /\ \E k \in AnalysisSteps : ~steps[k].result.success /\ ~steps[k].result.halted
  /\ \A k \in 1..Len(steps) : ~steps[k].result.halted

\* what C15 says apart from the number of invocations: the aggregate stage is
\* run once, after every analysis is recorded, with every item's outcome, and a
\* failed analysis without any halted step gives the status failed
C15_AggregateAfterAnalyses ==
  ValidatePassed =>
    /\ Cardinality(StepsOf("backtest_portfolio")) <= 1
    /\ InAggregate =>
         /\ \A p \in Positions : Occurrences(PassedItems, p) > 0 => StepsFor(p) >= 1
         /\ \A p \in Positions : StepsFor(p) >= 1 => OutcomeReceived(p)
         /\ \A i \in DOMAIN workers : workers[i].state = "collected"
         /\ mode = "specified" => item = Len(positions) + 1
    /\ HasStep("backtest_portfolio") =>
         /\ call.skill_name = "generate_report"
         /\ \A k \in AnalysisSteps : k < CHOOSE a \in StepsOf("backtest_portfolio") : TRUE
    /\ pc \in {"finalize", "finished"} => Cardinality(StepsOf("backtest_portfolio")) = 1
    /\ (pc = "finished" /\ SomeAnalysisFailedNoneHalted) => status_update.status = "failed"

\* C15 as stated: whenever validate passed at least one item the aggregate
\* skill is invoked exactly once, after all analyses are recorded and with the
\* outcome of every analysed item, even if analyses failed; a failed analysis
\* with no halted step gives the final status failed.
C15_AggregateInvokedOnce ==
  /\ C15_AggregateAfterAnalyses
  /\ (ValidatePassed /\ InAggregate) => invocations <= 1
  /\ (ValidatePassed /\ InAggregate /\ pc = "after_portfolio") => invocations = 1

\* C15, amended: the aggregate stage is run exactly once (one _execute_skill
\* call, in which the skill is invoked at least once and at most 3 times),
\* after all analyses are recorded and with the outcome of every analysed item,
\* even if analyses failed; a failed analysis with no halted step gives the
\* final status failed.
C15_AggregateStageRunsOnce ==
  /\ C15_AggregateAfterAnalyses
  /\ (ValidatePassed /\ InAggregate) => invocations <= 3
  /\ (ValidatePassed /\ InAggregate /\ pc = "after_portfolio") => invocations >= 1

C15_Witness ==
  /\ pc = "finished" /\ ValidatePassed /\ Len(PassedItems) = 2
  /\ Cardinality(AnalysisSteps) = 2
  /\ \E k \in AnalysisSteps : steps[k].result.success
  /\ \E k \in AnalysisSteps : steps[k].result = MaxRetriesExceeded
  /\ HasStep("backtest_portfolio")
  /\ status_update.status = "failed"

C15_WitnessRetriedAggregate ==
  /\ ValidatePassed /\ InAggregate /\ pc = "after_portfolio" /\ invocations = 3
  /\ result.success


\* --------------------------------------------------- claims, SpecFinalize
HaltedSteps == {k \in 1..Len(steps) : steps[k].result.halted}
FailedSteps == {k \in 1..Len(steps) : ~steps[k].result.success}
FirstOf(S) == CHOOSE k \in S : \A j \in S : k <= j

\* C16: for every step history, the status computed by _finalize_task is
\* halted iff some step is halted, and then the error text is that of the first
\* halted step (whatever failed steps stand before or after it); otherwise it
\* is failed iff some step is unsuccessful; otherwise it is completed.
C16_FinalizationPrecedence ==
  pc = "finished" =>
    /\ status_update.status = "halted" <=> HaltedSteps # {}
    /\ HaltedSteps # {} =>
         status_update.error_message = steps[FirstOf(HaltedSteps)].result.error
    /\ HaltedSteps = {} =>
         /\ status_update.status = "failed" <=> FailedSteps # {}
         /\ FailedSteps = {} => status_update.status = "completed"
    /\ status_update.status \in {"halted", "failed", "completed"}

C16_Witness ==
  /\ pc = "finished" /\ Len(steps) = 3
  /\ ~steps[1].result.success /\ ~steps[1].result.halted /\ steps[1].result.error = "e2"
  /\ steps[2].result.halted /\ steps[2].result.error = "e1"
  /\ ~steps[3].result.success /\ steps[3].result.error = "e2"
  /\ status_update.status = "halted" /\ status_update.error_message = "e1"


\* C17: an exception raised by set_task_status during _finalize_task is
\* swallowed and the run ends normally with its step history; without a
\* connection string set_task_status performs no database operation and
\* returns 0 without raising.
C17_FinalizeBestEffort ==
  /\ pc \in {"finalize", "finished"}
  /\ pc = "finalize" => finalized = 0 /\ status_update = NoStatus
  /\ pc = "finished" =>
       /\ finalized = 1
       /\ status_update.task_id = current_task_id
       /\ status_update.outcome = "raise" => status_update.db.raised
       /\ status_update.outcome = "noop" =>
            status_update.db = [db_ops |-> 0, returned |-> 0, raised |-> FALSE]
       /\ status_update.outcome = "ok" =>
            (status_update.db.db_ops = 1 /\ ~status_update.db.raised)

C17_Witness ==
  /\ pc = "finished" /\ finalized = 1 /\ Len(steps) = 3
  /\ status_update.outcome = "raise" /\ status_update.db.raised
  /\ status_update.status = "failed"

C17_WitnessNoConnection ==
  /\ pc = "finished" /\ status_update.outcome = "noop" /\ status_update.db.db_ops = 0
  /\ status_update.db.returned = 0


\* ------------------------------------------------------ claims, SpecCache
LatestCall == call_log[Len(call_log)]
\* the earlier calls with the latest call's key / those that returned rows
EarlierCalls ==
  {i \in 1..(Len(call_log) - 1) : call_log[i].key = LatestCall.key}
EarlierUses == {i \in EarlierCalls : ~call_log[i].raised}
LatestOf(S) == CHOOSE i \in S : \A j \in S : j <= i
\* the keys used (stored or hit) by the calls after call i, the latest excluded
UsedSince(i) ==
  {call_log[m].key : m \in {j \in (i + 1)..(Len(call_log) - 1) : ~call_log[j].raised}}
CachedKeys(cache) == {cache[i].key : i \in 1..Len(cache)}

\* C18 as stated: of the calls with one key only the first reaches the
\* network; every later call returns the cached rows without a request.
C18_OnlyFirstCallReachesNetwork ==
  (call_log # <<>> /\ EarlierCalls # {}) =>
    /\ LatestCall.requests = 0 /\ ~LatestCall.raised
    /\ returned = Rows(LatestCall.key)

\* C18, amended: a call sends no request and returns the cached rows exactly
\* when an earlier call with its key returned rows and fewer than 64 other keys
\* were used since the latest such call; otherwise (first call, all earlier
\* calls raised, or entry evicted) it sends a request.
C18_CachedKeyServedWithoutRequest ==
  call_log # <<>> =>
    /\ LatestCall.requests = 0 <=>
         (/\ EarlierUses # {}
          /\ Cardinality(UsedSince(LatestOf(EarlierUses)) \ {LatestCall.key})
               < _continuous_cache_max)
    /\ LatestCall.requests = 0 => (~LatestCall.raised /\ returned = Rows(LatestCall.key))
    /\ LatestCall.requests \in {0, 1}
    /\ ~LatestCall.raised => returned = Rows(LatestCall.key)

C18_Witness ==
  /\ Len(call_log) >= 3 /\ EarlierUses # {}
  /\ LatestCall.requests = 0 /\ returned = Rows(LatestCall.key)
  /\ UsedSince(LatestOf(EarlierUses)) # {}

C18_WitnessEvicted ==
  /\ call_log # <<>> /\ EarlierUses # {} /\ LatestCall.requests = 1

C18_WitnessAfterFailure ==
  /\ call_log # <<>> /\ EarlierCalls # {} /\ EarlierUses = {} /\ LatestCall.requests = 1
  /\ ~LatestCall.raised

\* a call that stores a new key in a full cache
StoresInFullCache ==
  /\ Len(call_log') = Len(call_log) + 1
  /\ Len(continuous_cache) = 64
  /\ call_log'[Len(call_log')].requests = 1 /\ ~call_log'[Len(call_log')].raised
\* the latest call that used key v, and the keys used after it
LastUse(v) == LatestOf({i \in 1..Len(call_log) : call_log[i].key = v /\ ~call_log[i].raised})
UsedAfter(i) ==
  {call_log[m].key : m \in {j \in (i + 1)..Len(call_log) : ~call_log[j].raised}}
C19_EvictsLeastRecentlyUsed ==
  StoresInFullCache =>
    LET k == call_log'[Len(call_log')].key
        gone == CachedKeys(continuous_cache) \ CachedKeys(continuous_cache')
    IN /\ Len(continuous_cache') = 64
       /\ Cardinality(gone) = 1
       /\ CachedKeys(continuous_cache') = (CachedKeys(continuous_cache) \ gone) \cup {k}
       /\ \A v \in gone : CachedKeys(continuous_cache) \ {v} \subseteq UsedAfter(LastUse(v))
C19_AtMost64 ==
  /\ Len(continuous_cache) <= 64
  /\ Cardinality(CachedKeys(continuous_cache)) = Len(continuous_cache)
  /\ fresh < 65 => \A i \in 1..Len(call_log) :
                     ~call_log[i].raised => call_log[i].key \in CachedKeys(continuous_cache)

\* C19: the cache never holds more than 64 entries and nothing is evicted
\* before a 65th key is stored; a store into a full cache evicts exactly one
\* entry, the one whose latest use (store or hit) is the oldest.
C19_LruEviction == []C19_AtMost64 /\ [][C19_EvictsLeastRecentlyUsed]_vars

C19_Witness ==
  /\ fresh >= 65 /\ Len(continuous_cache) = 64
  /\ 1 \in CachedKeys(continuous_cache) /\ 2 \notin CachedKeys(continuous_cache)
  /\ \E i \in 1..Len(call_log) : call_log[i].key = 2 /\ ~call_log[i].raised
  /\ \E i \in 1..Len(call_log) : call_log[i].key = 1 /\ call_log[i].requests = 0
  /\ call_log[1].key = 1 /\ ~call_log[1].raised


\* ---------------------------------------------------- claims, SpecChunked
\* the whole-range read timed out and the chunk reads succeeded
ChunkedFallbackReturned ==
  /\ call_log # <<>> /\ ~LatestCall.raised
  /\ query.start_date /\ query.end_date /\ Unanswered(1, RangeDays)
\* what the same read returns from a backend that does not time out
DirectRead == Response(1, RangeDays, query.limit)
\* out holds the rows of `rows`: one row for each date key, the last of that
\* date, in ascending order of date
SameRowsSortedLastWins(out, rows) ==
  /\ \A n \in 1..(Len(out) - 1) : out[n].trade_date < out[n + 1].trade_date
  /\ {out[n].trade_date : n \in 1..Len(out)} = {rows[i].trade_date : i \in 1..Len(rows)}
  /\ \A n \in 1..Len(out) : \E i \in 1..Len(rows) :
       /\ rows[i] = out[n]
       /\ \A j \in (i + 1)..Len(rows) : rows[j].trade_date # out[n].trade_date
LimitBinds ==
  query.limit # <<>> /\ Len(InRange(backend.rows, 1, RangeDays)) > query.limit[1]

\* C20: when the whole-range read times out and the chunk reads succeed,
\* get_continuous returns the rows of a direct read of the range without
\* timeout, sorted ascending by date key with duplicate dates resolved to the
\* last occurrence, for every backend row set and every limit.
C20_ChunkedEqualsDirect ==
  ChunkedFallbackReturned => SameRowsSortedLastWins(returned, DirectRead)

\* the equivalence holds when the limit, if any, is at least the number of
\* rows of the range
C20_EqualWhereLimitDoesNotBind ==
  (ChunkedFallbackReturned /\ ~LimitBinds) => SameRowsSortedLastWins(returned, DirectRead)

\* with a binding limit the fallback never returns fewer rows than the read
\* asked for
C20_MoreRowsThanLimit ==
  /\ ChunkedFallbackReturned /\ LimitBinds
  /\ Len(returned) > query.limit[1]


\* ---------------------------------------------------- claims, SpecRequest
\* the request failed: an error status, or no answer at all
RequestFailed(t) == t.kind # "response" \/ t.status >= 400

\* C23: a request that fails with HTTP status s is raised as ModuleError
\* exactly when 400 <= s < 500; every other failure (5xx, transport failure
\* with no status) is raised as NetworkError; no failed request returns data.
C23_FailureClassification ==
  call_log # <<>> =>
    LET t == LatestCall.key IN
    /\ returned.raised <=> RequestFailed(t)
    /\ returned.raised =>
         /\ ~returned.data
         /\ returned.exc.kind \in {"ModuleError", "NetworkError"}
         /\ returned.exc.kind = "ModuleError" <=>
              (t.kind = "response" /\ 400 <= t.status /\ t.status < 500)
    /\ ~returned.raised => returned.data

C23_Witness ==
  /\ Len(call_log) = 2
  /\ call_log[1].key.kind = "response" /\ call_log[1].key.status = 499
  /\ call_log[1].raised
  /\ call_log[2].key.kind = "response" /\ call_log[2].key.status = 500
  /\ returned.raised /\ returned.exc.kind = "NetworkError"

C23_WitnessTransport ==
  /\ call_log # <<>> /\ LatestCall.key.kind = "ConnectionError"
  /\ returned.raised /\ returned.exc.kind = "NetworkError"


\* --------------------------------------------------- claims, SpecFallback
\* the latest call sent its first request and the backend did not answer it
FirstRequestFailed ==
  call_log # <<>> /\ LatestCall.requests > 0 /\ Unanswered(1, RangeDays)
OriginalError == ErrorOf(backend.fault, 1, RangeDays)
\* the fault is a timeout: a requests Timeout, or a failure whose text says so
TimeoutFault(t) == t.kind = "Timeout" \/ t.timeout_text
BothDatesGiven == query.start_date /\ query.end_date
ChunkedAttempted == Len(LatestCall.sent) > 1

\* C21: when the read fails with NetworkError the chunked fetch is attempted
\* if and only if both dates were supplied and the fault is a timeout; in every
\* other case the original error propagates unchanged, no further request is
\* issued and nothing is stored in the cache.
C21_FallbackTrigger ==
  FirstRequestFailed =>
    /\ ChunkedAttempted <=>
         (/\ OriginalError.kind = "NetworkError"
          /\ BothDatesGiven /\ TimeoutFault(backend.fault))
    /\ ~ChunkedAttempted =>
         /\ LatestCall.raised
         /\ returned = RaisedError(OriginalError)
         /\ LatestCall.sent = <<[start |-> 1, end |-> RangeDays, chunk_days |-> 0]>>
         /\ continuous_cache = <<>>

C21_Witness ==
  /\ FirstRequestFailed /\ ChunkedAttempted /\ ~LatestCall.raised
  /\ backend.fault.kind = "response" /\ backend.fault.timeout_text
  /\ continuous_cache # <<>>

C21_WitnessOneDate ==
  /\ FirstRequestFailed /\ ~ChunkedAttempted
  /\ query.start_date /\ ~query.end_date /\ backend.fault = ReadTimeout
  /\ Len(call_log) = 2

C21_WitnessNoTimeout ==
  /\ FirstRequestFailed /\ ~ChunkedAttempted /\ BothDatesGiven
  /\ OriginalError.kind = "NetworkError" /\ ~TimeoutFault(backend.fault)

\* the chunk requests of the latest call, in the order sent
ChunkRequests == Tail(LatestCall.sent)
Answered(r) == ~Unanswered(r.start, r.end)
Within(r, q) == q.start <= r.start /\ r.end <= q.end
Overlap(r, q) == r.start <= q.end /\ q.start <= r.end
ChunkTimeout == backend.chunk_fault = ReadTimeout
Halved(d) == IF d \div 2 < 30 THEN 30 ELSE d \div 2
\* request n is re-fetched in smaller chunks: the next request starts its
\* sub-range at half the chunk size
Refetched(n) ==
  /\ n < Len(ChunkRequests)
  /\ ChunkRequests[n + 1].start = ChunkRequests[n].start
  /\ ChunkRequests[n + 1].chunk_days = Halved(ChunkRequests[n].chunk_days)
  /\ Within(ChunkRequests[n + 1], ChunkRequests[n])

\* C22: a chunk read that times out is re-fetched with the chunk size halved
\* (never below 30 days) only when the chunk size exceeds 45 days, and only for
\* that chunk's sub-range (answered chunks are not requested again); a timeout
\* at chunk size <= 45 or a non-timeout fault propagates as an error; from 365
\* days the depth is bounded and the fetch ends with rows or an error.
C22_ChunkShrinking ==
  (FirstRequestFailed /\ ChunkedAttempted) =>
    /\ \A n \in 1..Len(ChunkRequests) :
         LET r == ChunkRequests[n] IN
         /\ r.chunk_days \in {365, 182, 91, 45}
         /\ r.end - r.start + 1 <= r.chunk_days
         /\ Within(r, [start |-> 1, end |-> RangeDays])
         \* answered chunks are not requested again
         /\ Answered(r) => \A m \in (n + 1)..Len(ChunkRequests) :
                             ~Overlap(r, ChunkRequests[m])
         \* an unanswered chunk is split again, or its error ends the fetch
         /\ ~Answered(r) =>
              IF ChunkTimeout /\ r.chunk_days > 45
                THEN Refetched(n)
                ELSE /\ n = Len(ChunkRequests)
                     /\ LatestCall.raised
                     /\ returned = RaisedError(ErrorOf(backend.chunk_fault, r.start, r.end))
         \* a smaller chunk size is used only inside a chunk that timed out
         /\ r.chunk_days < 365 =>
              \E m \in 1..(n - 1) :
                /\ ~Answered(ChunkRequests[m]) /\ Within(r, ChunkRequests[m])
                /\ r.chunk_days = Halved(ChunkRequests[m].chunk_days)
    /\ ChunkRequests[1].chunk_days = 365
    /\ LatestCall.raised \/ \A n \in 1..Len(returned) : returned[n] \in BackendRows
    /\ ~LatestCall.raised => \A d \in 1..RangeDays :
         Cardinality({n \in 1..Len(ChunkRequests) :
                        Answered(ChunkRequests[n]) /\ ChunkRequests[n].start <= d
                        /\ d <= ChunkRequests[n].end}) = 1

C22_Witness ==
  /\ FirstRequestFailed /\ ChunkedAttempted /\ ~LatestCall.raised
  /\ \E n \in 1..Len(ChunkRequests) : ChunkRequests[n].chunk_days = 91
  /\ returned # <<>>

C22_WitnessSmallChunkTimeout ==
  /\ FirstRequestFailed /\ ChunkedAttempted /\ LatestCall.raised /\ ChunkTimeout
  /\ ChunkRequests[Len(ChunkRequests)].chunk_days = 45

C22_WitnessOtherFault ==
  /\ FirstRequestFailed /\ ChunkedAttempted /\ LatestCall.raised /\ ~ChunkTimeout
  /\ ChunkRequests[Len(ChunkRequests)].chunk_days = 365


\* --------------------------------------------------------- claims, SpecDb
\* the latest call was given an empty row or an empty where-map
EmptyPayloadCall ==
  /\ call_log # <<>>
  /\ \E n \in 1..Len(LatestCall.key.args) : LatestCall.key.args[n] = "empty"

\* C24: every call of write with an empty row, and of update_where with an
\* empty row or an empty where-map, fails with ModuleError and executes no SQL
\* statement, whatever the state of the direct database connection.
C24_EmptyPayloadRejected ==
  EmptyPayloadCall =>
    /\ returned.raised /\ returned.exc = "ModuleError"
    /\ LatestCall.sent = <<>>

\* what does hold: the call fails without executing SQL, and with ModuleError
\* exactly when connect() succeeded (a connection is then opened)
C24_EmptyPayloadNeverExecutes ==
  EmptyPayloadCall =>
    /\ returned.raised /\ LatestCall.sent = <<>>
    /\ returned.exc = "ModuleError" <=>
         (direct_db.connection_string /\ direct_db.reachable)
    /\ returned.exc = "ModuleError" => direct_db._conn # "None"
    /\ returned.exc = "ConfigurationError" <=> ~direct_db.connection_string

C24_ConfigurationErrorForEmptyRow ==
  /\ EmptyPayloadCall /\ LatestCall.key.op = "write"
  /\ returned.exc = "ConfigurationError"


\* ------------------------------------------------- claims, Spec (halting)
\* the run pushed a halted status
HaltedStatusPushed == finalized > 0 /\ status_update.status = "halted"
\* the steps whose result is halted, and the texts of the faults skills raised
HaltedStepErrors == {steps[n].result.error : n \in {m \in 1..Len(steps) : steps[m].result.halted}}

\* C25: whenever a run's final status is halted, the halted step's result and
\* the error text pushed with the status update carry the text of the fault
\* that caused the halt, in non-interactive and in interactive mode alike.
C25_HaltedReportsError ==
  HaltedStatusPushed =>
    /\ status_update.error_message \in ErrorTexts
    /\ HaltedStepErrors \subseteq ErrorTexts

\* the text is reported when the Supervisor halts without asking
C25_NonInteractiveHaltReportsError ==
  (HaltedStatusPushed /\ non_interactive) =>
    /\ status_update.error_message \in ErrorTexts
    /\ HaltedStepErrors = {status_update.error_message}

\* an operator's abort halts the task with no error text
C25_AbortWithoutText ==
  /\ HaltedStatusPushed /\ ~non_interactive
  /\ status_update.error_message = NoError
  /\ HaltedStepErrors = {NoError}


\* ------------------------------------------------ claims, SpecExec (audit)
\* the events logged for the call, in order
AuditEvents == [n \in 1..Len(execution_log.recent) |-> execution_log.recent[n].event]
Started == pc # "exec_start"
AttemptEvent(c) == IF c.tag = "return" /\ c.success THEN "COMPLETE" ELSE "ERROR"

\* C26: for every _execute_skill call on a registered skill exactly one START
\* event is logged, before the first invocation; every attempt then logs
\* exactly one event, COMPLETE if it returned success and ERROR otherwise; the
\* call returns a successful result iff the last event logged is COMPLETE.
C26_AuditSequence ==
  (Registered /\ Started) =>
    /\ Len(AuditEvents) >= 1 /\ AuditEvents[1] = "START"
    /\ \A n \in 2..Len(AuditEvents) : AuditEvents[n] # "START"
    /\ Len(outcomes) = invocations
    /\ Len(AuditEvents) = 1 + invocations + final_notified
    /\ \A n \in 1..invocations : AuditEvents[n + 1] = AttemptEvent(outcomes[n])
    /\ final_notified = 1 => AuditEvents[Len(AuditEvents)] = "ERROR"
    /\ \A n \in 1..Len(AuditEvents) :
         execution_log.recent[n].skill_name = call.skill_name
    /\ Returned_ => (result.success <=> AuditEvents[Len(AuditEvents)] = "COMPLETE")

C26_Witness ==
  /\ Registered /\ Returned_ /\ result.success
  /\ AuditEvents = <<"START", "ERROR", "ERROR", "COMPLETE">>
  /\ outcomes[1].tag = "raise" /\ outcomes[2].tag = "return"

C26_WitnessExhausted ==
  /\ Registered /\ Returned_ /\ result = MaxRetriesExceeded
  /\ AuditEvents = <<"START", "ERROR", "ERROR", "ERROR", "ERROR">>


\* ------------------------------------------ claims, SpecItems (isolation)
InAnalyzeStage == mode = "smart" /\ pc = "pool"
\* the analyze stage of smart mode is over: the aggregate call has begun
AnalyzeStageOver ==
  /\ mode = "smart" /\ workers # <<>>
  /\ \A i \in DOMAIN workers : workers[i].state = "collected"
  /\ pc # "pool"

\* C27: each smart-mode worker builds and uses its own client, so the main
\* client's read cache, the Supervisor's remote-logging flag, its current task
\* id and its in-memory log are the same at the end of the analyze stage as at
\* its start, under every interleaving of the workers.
C27_WorkersShareNothing ==
  [][ InAnalyzeStage =>
        /\ continuous_cache' = continuous_cache
        /\ remote_logging_enabled' = remote_logging_enabled
        /\ current_task_id' = current_task_id
        \* the step that leaves the stage is the start of the aggregate call,
        \* which moves the recent entries of the log among the old ones
        /\ Entries(execution_log') = Entries(execution_log)
        /\ (pc' = "pool" => execution_log' = execution_log) ]_vars

C27_Witness ==
  /\ AnalyzeStageOver /\ Len(workers) = 3
  /\ \A i \in DOMAIN workers : workers[i].cache = <<[key |-> workers[i].position,
                                                      data |-> Rows(workers[i].position)]>>
  /\ continuous_cache = <<[key |-> "p1", data |-> Rows("p1")]>>
  /\ Entries(execution_log) # {}


\* ---------------------------------------- claims, SpecItems (parallelism)
\* the main process is inside _execute_skill
InSkillCall == pc \in {"exec_start", "exec_loop", "exec_prompt"}
Min(a, b) == IF a < b THEN a ELSE b

\* C28: in smart mode at most min(2, number of items handed to the analyze
\* stage) analyses are in progress at any moment and none is in progress
\* outside the analyze stage; validate, aggregate, report and all of specified
\* mode run in the main process alone, one skill call at a time: while the main
\* process is inside a skill call no worker is busy, and specified mode has no
\* worker at all.
C28_BoundedParallelism ==
  /\ Cardinality(Running) <= Min(2, Len(positions))
  /\ (Running # {} => mode = "smart" /\ pc = "pool")
  /\ (InSkillCall => Running = {})
  /\ (mode = "specified" => workers = <<>>)

\* the pool is full while a third item waits
C28_Witness ==
  /\ mode = "smart" /\ pc = "pool" /\ Len(positions) = 3
  /\ Cardinality(Running) = 2
  /\ \E i \in DOMAIN workers : workers[i].state = "submitted"

\* an analysis of specified mode is under way in the main process
C28_WitnessSpecified ==
  /\ mode = "specified" /\ InSkillCall /\ call.skill_name = "backtest_strategy"
  /\ invocations > 0


\* ------------------------------------------- claims, SpecReport (report)
\* _execute_skill("generate_report") is under way or has just returned
InReportStage ==
  /\ call.skill_name = "generate_report"
  /\ pc \in {"exec_start", "exec_loop", "exec_prompt", "after_report"}
ReportSteps == {k \in DOMAIN steps : steps[k].skill = "generate_report"}
AggregateSteps == {k \in DOMAIN steps : steps[k].skill = "backtest_portfolio"}
RunOver == pc \in {"finalize", "finished"}

\* C29: the report stage is called after the aggregate stage whatever the
\* aggregate result is, and from the call of the report skill to the end of the
\* run the steps recorded for validate, analyze and aggregate stay exactly as
\* they were, whether the report succeeds, fails, is skipped or is halted.
C29_ReportNotRetroactive ==
  [][ /\ (pc = "after_portfolio" =>
            /\ InReportStage' /\ pc' = "exec_start"
            /\ steps' = Append(steps, Step("backtest_portfolio", "-", result)))
      /\ (InReportStage \/ (RunOver /\ AggregateSteps # {}) =>
            /\ Len(steps') >= Len(steps)
            /\ SubSeq(steps', 1, Len(steps)) = steps
            /\ (RunOver => steps' = steps))
      /\ (pc = "after_report" =>
            /\ invocations >= 1
            /\ steps' = Append(steps, Step("generate_report", "-", result))) ]_vars

\* a run ended with a failed aggregate step followed by a halted report step
C29_Witness ==
  /\ pc = "finished"
  /\ \E k \in AggregateSteps :
       /\ ~steps[k].result.success
       /\ k + 1 \in ReportSteps /\ steps[k + 1].result.halted
       /\ \E j \in 1..(k - 1) : steps[j].result.success
C29_WitnessSkipped ==
  pc = "finished" /\ \E k \in ReportSteps : steps[k].result.skipped
C29_WitnessFailed ==
  /\ pc = "finished"
  /\ \E k \in ReportSteps :
       ~steps[k].result.success /\ ~steps[k].result.skipped /\ ~steps[k].result.halted


\* ------------------------------------------- claims, SpecExec (the prompt)
\* the lines by which the operator chooses retry, skip and abort
RetryInputs == {<<"r">>, <<"R">>}
SkipInputs == {<<"s">>}
AbortInputs == {<<"a">>, <<" ", "A", " ">>}
Flags(res) == <<res.retry, res.skipped, res.halted>>
FlagsFor(line) ==
  IF line \in RetryInputs THEN <<TRUE, FALSE, FALSE>>
  ELSE IF line \in SkipInputs THEN <<FALSE, TRUE, FALSE>>
  ELSE <<FALSE, FALSE, TRUE>>
PromptGaveResult == yields' # yields

\* C30: in interactive mode the prompt of an escalated fault gives a result
\* only when the line just read chooses retry, skip or abort; any other line
\* leaves the prompt open and gives no result; and the result given is a
\* failure carrying exactly the flag of the choice.
C30_PromptNeverDefaults ==
  [][ pc = "exec_prompt" =>
        /\ ~non_interactive
        /\ (PromptGaveResult =>
              /\ last_input' \in RetryInputs \cup SkipInputs \cup AbortInputs
              /\ yields' = Append(yields, yields'[Len(yields')])
              /\ Flags(yields'[Len(yields')]) = FlagsFor(last_input')
              /\ ~yields'[Len(yields')].success
              /\ ~prompting')
        /\ (last_input' \notin RetryInputs \cup SkipInputs \cup AbortInputs =>
              /\ ~PromptGaveResult
              /\ pc' = "exec_prompt" /\ prompting'
              /\ result' = result /\ attempt' = attempt)
        /\ (last_input' \in RetryInputs \cup SkipInputs \cup AbortInputs =>
              PromptGaveResult) ]_vars

\* the operator's " A " ended the call with a halted result
C30_Witness ==
  /\ last_input = <<" ", "A", " ">>
  /\ yields # <<>> /\ yields[Len(yields)].halted
  /\ pc = call.ret /\ result.halted
\* the prompt is open again after a line that chooses nothing
C30_WitnessReprompt ==
  pc = "exec_prompt" /\ prompting /\ last_input = <<"r", "e", "t", "r", "y">>


\* ---------------------------------------- claims, SpecRuns (task identifier)
AllSinks == <<execution_log, remote_log>> \o [t \in 1..MaxTasks |-> local_files[t]]
AllSinksNext == <<execution_log', remote_log'>> \o [t \in 1..MaxTasks |-> local_files'[t]]
\* the identifiers found in log entries and in the latest status update
IdsInUse ==
  UNION {{e.task_id : e \in Entries(AllSinks[k])} : k \in DOMAIN AllSinks}
    \cup {status_update.task_id}
\* the entries a step appends to sink k
Emitted(k) ==
  (Entries(AllSinksNext[k]) \ Entries(AllSinks[k]))
    \cup (IF Len(AllSinksNext[k].recent) > Len(AllSinks[k].recent)
            THEN {AllSinksNext[k].recent[Len(AllSinksNext[k].recent)]} ELSE {})

\* C31: every log entry emitted during a run (in memory, in a local file, to
\* the log endpoint) and the status update of its finalization carry the
\* identifier the run minted at its start, and that identifier is one no
\* earlier entry or status update carries, so no entry of a later run carries
\* an earlier run's identifier.
C31_TaskIdThreading ==
  [][ /\ (task_id' # task_id => pc = "run_start")
      /\ (pc = "run_start" /\ pc' # "run_start" =>
            /\ task_id' \notin IdsInUse \cup {NoTask, task_id}
            /\ current_task_id' = task_id')
      /\ (\A k \in DOMAIN AllSinks : \A e \in Emitted(k) :
            e.task_id = task_id /\ task_id' = task_id /\ task_id # NoTask)
      /\ (status_update' # status_update =>
            status_update'.task_id = task_id /\ task_id' = task_id /\ task_id # NoTask) ]_vars

\* the second run is over: its entries and status update carry 2, the
\* entries of the first run are still there with 1
C31_Witness ==
  /\ task_id = 2 /\ pc = "finished" /\ status_update.task_id = 2
  /\ \E e \in Entries(execution_log) : e.task_id = 1
  /\ \E e \in Entries(execution_log) : e.task_id = 2
  /\ \E e \in Entries(remote_log) : e.task_id = 2
  /\ Entries(local_files[2]) # {}


\* ------------------------------------------------ claims, SpecLog (cap)
LogCallMade == execution_log.recent # <<>>
\* the payload text an entry stores: its data field, or its message when the
\* payload was not a dict
StoredTexts == {log_call.entry.message, log_call.entry.data} \ {None}
EndsWithMarker(text) ==
  /\ Len(text) >= Len(TruncationMarker)
  /\ SubSeq(text, Len(text) - Len(TruncationMarker) + 1, Len(text)) = TruncationMarker
Exceeds == Len(log_call.data.text) > log_call.max_log_data_chars

\* C32: whatever the type of the logged payload, the payload text stored in
\* the entry has at most max_log_data_chars characters plus the length of the
\* truncation marker, and ends with the marker exactly when the untruncated
\* text was longer than max_log_data_chars.
C32_PayloadCap ==
  LogCallMade =>
    \A text \in StoredTexts :
      /\ Len(text) <= log_call.max_log_data_chars + Len(TruncationMarker)
      /\ EndsWithMarker(text) <=> Exceeds

\* the part that holds: the cap and the marker for the data field, which only
\* a dict payload fills
C32_DataFieldCapped ==
  (LogCallMade /\ log_call.entry.data # None) =>
    /\ log_call.data.type = "dict"
    /\ Len(log_call.entry.data) <= log_call.max_log_data_chars + Len(TruncationMarker)
    /\ EndsWithMarker(log_call.entry.data) <=> Exceeds
    /\ (~Exceeds => log_call.entry.data = log_call.data.text)
\* a string payload longer than the cap is stored whole in the message field
C32_LongMessageStoredWhole ==
  /\ LogCallMade /\ log_call.data.type = "str" /\ Exceeds
  /\ Len(log_call.entry.message) > log_call.max_log_data_chars + Len(TruncationMarker)
  /\ log_call.entry.message = log_call.data.text
  /\ log_call.entry.data = None
C32_WitnessTruncated ==
  LogCallMade /\ log_call.data.type = "dict" /\ Exceeds /\ EndsWithMarker(log_call.entry.data)


\* ------------------------------------- claims, SpecWriteLog (rejected write)
LogStep == execution_log' # execution_log
RemoteWritten == Len(remote_log'.recent) = Len(remote_log.recent) + 1
SuccessFalse ==
  /\ log_call'.answer.transport.kind = "response"
  /\ log_call'.answer.transport.status = 200
  /\ log_call'.answer.body = "success_false"

\* C33: a log write the endpoint answers with 2xx and success=false returns
\* false without raising and leaves remote logging enabled, so that the next
\* log event of the same task is sent to the endpoint again; a _log call
\* switches remote logging off only when its write_log call raised.
C33_RejectedWriteKeepsLogging ==
  [][ LogStep =>
        /\ (SuccessFalse =>
              /\ last_write' = "rejected"
              /\ remote_logging_enabled /\ remote_logging_enabled')
        /\ ((last_write = "rejected" /\ log_call.answer # NoAnswer
               /\ remote_logging_enabled /\ current_task_id' = current_task_id) =>
              RemoteWritten /\ last_write' # "none")
        /\ ((remote_logging_enabled /\ ~remote_logging_enabled') =>
              last_write' = "raise" /\ write_log(log_call'.answer) = "raise") ]_vars

\* two writes of task 1 in a row, the first one rejected
C33_Witness ==
  /\ current_task_id = 1 /\ remote_logging_enabled
  /\ Len(remote_log.recent) = 2
  /\ remote_log.recent[1].task_id = 1 /\ remote_log.recent[2].task_id = 1
  /\ last_write = "rejected" /\ log_call.answer.body = "success_missing"
C33_WitnessRaised ==
  ~remote_logging_enabled /\ last_write = "raise" /\ log_call.answer.body = "not_a_dict"


C34_WitnessZero ==
  Returned_ /\ Registered /\ call.max_retries = 0 /\ result = MaxRetriesExceeded

\* ---------------------------------------------------- claims, SpecHalt
\* the steps of a run of specified mode that went through every stage
FullPipeline ==
  /\ Len(steps) = Len(positions) + 3
  /\ steps[1].skill = "validate_data"
  /\ \A i \in 1..Len(positions) :
       steps[i + 1].skill = "backtest_strategy" /\ steps[i + 1].position = positions[i]
  /\ steps[Len(positions) + 2].skill = "backtest_portfolio"
  /\ steps[Len(positions) + 3].skill = "generate_report"
\* the run went from validate to _finalize_task
EndedAfterValidate == Len(steps) = 1 /\ steps[1].skill = "validate_data"

\* C35 as stated: in specified mode a halted or skipped analysis is followed
\* by the analysis of the next item, or by the aggregate call after the last
\* item, a halted aggregate is followed by the report call, and a run that ends
\* without going through every stage has an unsuccessful validate result.
C35_OnlyFailedValidateEndsEarly ==
  RunOver => FullPipeline \/ (EndedAfterValidate /\ ~steps[1].result.success)

\* C35, amended: in specified mode a halted or skipped analysis is followed by
\* the analysis of the next item, or by the aggregate call after the last item,
\* and a halted aggregate by the report call; a run ends either after every
\* stage or right after a validate that failed or passed no item, and the
\* status pushed at the end is halted exactly when some step was halted.
C35_HaltedDoesNotStop ==
  /\ [](RunOver => FullPipeline \/ (EndedAfterValidate /\ ValidateStops(steps[1].result)))
  /\ [](pc = "finished" => (status_update.status = "halted" <=> HaltedSteps # {}))
  /\ [][ /\ (pc = "after_strategy" =>
                /\ pc' = "exec_start"
                /\ call'.skill_name = IF item < Len(positions) THEN "backtest_strategy"
                                                               ELSE "backtest_portfolio"
                /\ item' = item + 1)
         /\ (pc = "after_portfolio" =>
                pc' = "exec_start" /\ call'.skill_name = "generate_report") ]_vars

\* a run in which the first analysis was halted ended after every stage
C35_Witness ==
  /\ pc = "finished" /\ mode = "specified"
  /\ FullPipeline
  /\ Len(positions) = 2
  /\ steps[2].result.halted
  /\ status_update.status = "halted"
\* the same with a skipped analysis
C35_WitnessSkipped ==
  /\ pc = "finished" /\ mode = "specified"
  /\ FullPipeline
  /\ steps[2].result.skipped
\* the same with a halted aggregate
C35_WitnessAggregate ==
  /\ pc = "finished" /\ mode = "specified"
  /\ FullPipeline
  /\ steps[Len(positions) + 2].result.halted
  /\ steps[Len(positions) + 3].result.success
\* a run ended by a successful validate that passed no item
C35_WitnessEmptyPass ==
  /\ pc = "finished" /\ mode = "specified"
  /\ EndedAfterValidate /\ steps[1].result.success

\* -------------------------------------------------------- claims, Spec
\* the validate result recorded by the run
ValidateRecorded == Len(steps) >= 1 /\ steps[1].skill = "validate_data"
PassedNothing ==
  /\ steps[1].result.success
  /\ steps[1].result.data.present
  /\ steps[1].result.data.passed = <<>>
NoPayload == steps[1].result.success /\ ~steps[1].result.data.present
AnalysedItems == {steps[k].position : k \in {j \in DOMAIN steps : steps[j].skill = "backtest_strategy"}}

\* C36: in both modes, once a successful validate whose non-empty payload has
\* an empty or missing passed list is recorded, the run is at _finalize_task
\* or over with that single step, no worker and no later call, and the status
\* pushed is completed; once a successful validate without payload is
\* recorded, the items of the run are the configured ones and a run that ends
\* holds an analysis step for each of them.
C36_EmptyPassList ==
  /\ (ValidateRecorded /\ PassedNothing =>
        /\ RunOver
        /\ Len(steps) = 1
        /\ workers = <<>> /\ strategy_results = <<>>
        /\ (pc = "finished" =>
              status_update.status = "completed" /\ status_update.error_message = NoError))
  /\ (ValidateRecorded /\ NoPayload =>
        /\ positions = cfg_positions
        /\ ~(RunOver /\ Len(steps) = 1)
        /\ (RunOver => AnalysedItems = Range(cfg_positions)))

\* a run of smart mode ended by an empty passed list, status completed
C36_Witness ==
  /\ mode = "smart" /\ pc = "finished"
  /\ ValidateRecorded /\ PassedNothing
  /\ status_update.status = "completed"
\* the same in specified mode
C36_WitnessSpecified ==
  /\ mode = "specified" /\ pc = "finished"
  /\ ValidateRecorded /\ PassedNothing
\* a run whose validate returned no payload analysed both configured items
C36_WitnessNoPayload ==
  /\ pc = "finished"
  /\ ValidateRecorded /\ NoPayload
  /\ AnalysedItems = {"p1", "p2"}

\* the place of a skill in the order of the stages
StageRank(skill) ==
  IF skill = "validate_data" THEN 1
  ELSE IF skill = "backtest_strategy" THEN 2
  ELSE IF skill = "backtest_portfolio" THEN 3
  ELSE 4
StepsInStageOrder ==
  /\ \A i, j \in DOMAIN steps : i < j => StageRank(steps[i].skill) <= StageRank(steps[j].skill)
  /\ \A i, j \in DOMAIN steps :
       i < j /\ steps[i].skill = steps[j].skill => steps[i].skill = "backtest_strategy"
  /\ (steps # <<>> => steps[1].skill = "validate_data")
WorkerInvocations == [i \in DOMAIN workers |-> workers[i].invoked]

\* C37: in both modes _finalize_task has run exactly once when the run has
\* returned and not at all before; it runs from the recorded steps and leaves
\* them as they are, no _execute_skill call and no worker is under way at that
\* point or starts after it, and the recorded steps are in the order validate,
\* analyses, aggregate, report, with one step for each stage but the analyses.
C37_FinalizeOnce ==
  /\ [](finalized = (IF pc = "finished" THEN 1 ELSE 0))
  /\ [](RunOver => \A i \in DOMAIN workers : workers[i].state \notin {"running", "hung"})
  /\ [](StepsInStageOrder)
  /\ [][ /\ (pc = "finalize" =>
                /\ pc' = "finished"
                /\ finalized' = 1
                /\ status_update'.status = ScanSteps(steps, "completed", NoError).status)
         /\ (RunOver => UNCHANGED <<steps, invocations, call, workers, strategy_results>>) ]_vars

\* a run that went through every stage has returned, finalized once
C37_Witness ==
  /\ pc = "finished" /\ finalized = 1
  /\ Len(steps) = 5
  /\ steps[5].skill = "generate_report"
\* a run of smart mode ended right after validate, finalized once
C37_WitnessEarly ==
  /\ pc = "finished" /\ finalized = 1 /\ mode = "smart"
  /\ Len(steps) = 1
\* a run returned although set_task_status raised
C37_WitnessRaised ==
  /\ pc = "finished" /\ finalized = 1
  /\ status_update.db.raised

\* ---------------------------------------------------- claims, SpecSymbols
\* the get_continuous call made by the step
CallMade == Len(call_log') = Len(call_log) + 1
ThisCall == call_log'[Len(call_log')]
\* the call went through the chunked fallback and returned
ViaFallback == ~ThisCall.raised /\ Len(ThisCall.sent) > 1
Newest(cache) == cache[Len(cache)]

\* C38: the cache of a client never holds more than 64 entries, nor two
\* entries of one key; a get_continuous call that raises leaves the cache
\* exactly as it was; a call that returns rows gathered by the chunked
\* fallback stores them as the newest entry under the key of the call itself,
\* and adds no entry under any other key.
C38_CacheIntegrity ==
  /\ [](/\ Len(continuous_cache) <= 64
        /\ Cardinality(CachedKeys(continuous_cache)) = Len(continuous_cache))
  /\ [][ CallMade =>
           /\ (ThisCall.raised => continuous_cache' = continuous_cache)
           /\ (ViaFallback =>
                 /\ Newest(continuous_cache') = [key |-> ThisCall.key, data |-> returned']
                 /\ ThisCall.key.start_date /\ ThisCall.key.end_date
                 /\ CachedKeys(continuous_cache') \subseteq
                      CachedKeys(continuous_cache) \cup {ThisCall.key}) ]_vars

\* a full cache went through a failed call and kept its 64 entries
C38_Witness ==
  /\ Len(continuous_cache) = 64
  /\ fresh >= 65
  /\ LatestCall.raised
\* a full cache holds under the key of the call the rows of the fallback
C38_WitnessFallback ==
  /\ Len(continuous_cache) = 64
  /\ fresh >= 65
  /\ ~LatestCall.raised /\ Len(LatestCall.sent) > 1
  /\ Newest(continuous_cache).key = LatestCall.key
  /\ Len(Newest(continuous_cache).data) = 2
\* the fallback itself raised
C38_WitnessFallbackRaised ==
  /\ call_log # <<>>
  /\ LatestCall.raised /\ Len(LatestCall.sent) > 1

\* ----------------------------------------------------- claims, SpecRanges
FetchMade == call_log # <<>>
Sent == LatestCall.sent
\* a level of the fetch: the call itself, and the call made for each request
\* that timed out under a chunk size that is split again
TopLevel == LatestCall.key
Recursed(r) ==
  /\ Unanswered(r.start, r.end)
  /\ backend.chunk_fault = ReadTimeout
  /\ ShrinkAllowed(r.chunk_days)
LevelOf(r) == [start |-> r.start, end |-> r.end, chunk_days |-> NextChunkDays(r.chunk_days)]
Levels == {TopLevel} \cup {LevelOf(Sent[i]) : i \in {j \in DOMAIN Sent : Recursed(Sent[j])}}
\* the requests of a level, in the order they were sent
RequestsOf(level) ==
  {i \in DOMAIN Sent : Sent[i].chunk_days = level.chunk_days /\ Within(Sent[i], level)}
First(K) == CHOOSE i \in K : \A j \in K : i <= j
Last(K) == CHOOSE i \in K : \A j \in K : j <= i
After(K, i) == First({j \in K : j > i})
Covering(K, d) == {i \in K : Sent[i].start <= d /\ d <= Sent[i].end}
\* the requests are consecutive from the start of the level, each of
\* chunk_days days at most, and none reaches beyond the level
Consecutive(level, K) ==
  /\ (K # {} => Sent[First(K)].start = level.start)
  /\ \A i \in K :
       /\ Sent[i].start <= Sent[i].end
       /\ Sent[i].end - Sent[i].start + 1 <= level.chunk_days
       /\ Sent[i].end <= level.end
       /\ (i # Last(K) => Sent[After(K, i)].start = Sent[i].end + 1)
  /\ \A d \in level.start..level.end : Cardinality(Covering(K, d)) <= 1
\* the requests reach the end of the level and cover each of its days once
Complete(level, K) ==
  /\ (level.start <= level.end => K # {} /\ Sent[Last(K)].end = level.end)
  /\ \A d \in level.start..level.end : Cardinality(Covering(K, d)) = 1
EmptyRange ==
  TopLevel.start > TopLevel.end => Sent = <<>> /\ ~LatestCall.raised /\ returned = <<>>

\* C39 as stated: at every level of a chunked fetch the requests are
\* consecutive, of chunk_days days at most, from the start of the level to its
\* end, covering each day once, and a fetch with start after end sends nothing
\* and returns no row.
C39_RangesPartition ==
  FetchMade =>
    /\ \A level \in Levels :
         Consecutive(level, RequestsOf(level)) /\ Complete(level, RequestsOf(level))
    /\ EmptyRange

\* C39, amended: at every level of a chunked fetch the requests are
\* consecutive from the start of the level, of chunk_days days at most, within
\* the level and covering no day twice; when the fetch returns, the requests
\* of every level also reach its end and cover each of its days exactly once;
\* a fetch with start after end sends nothing and returns no row.
C39_RangesPartitionWhenReturned ==
  FetchMade =>
    /\ \A level \in Levels : Consecutive(level, RequestsOf(level))
    /\ (~LatestCall.raised =>
          \A level \in Levels : Complete(level, RequestsOf(level)))
    /\ EmptyRange

\* a fetch of 1000 days returned after three levels of requests
C39_Witness ==
  /\ FetchMade /\ ~LatestCall.raised
  /\ TopLevel = [start |-> 1, end |-> RangeDays, chunk_days |-> DEFAULT_CHUNK_DAYS]
  /\ Cardinality(Levels) >= 7
  /\ Cardinality({Sent[i].chunk_days : i \in DOMAIN Sent}) = 3
\* a fetch with start after end
C39_WitnessEmpty ==
  /\ FetchMade
  /\ TopLevel.start = 2 /\ TopLevel.end = 1
  /\ Sent = <<>>
\* a fetch that raised after its first chunk
C39_WitnessRaised ==
  /\ FetchMade /\ LatestCall.raised
  /\ Len(Sent) >= 2

\* --------------------------------------------------- claims, SpecFinalize
\* what the command line prints for the history _finalize_task was given
Summary == _summarize_status(steps)
Pushed == pc = "finished" /\ finalized = 1

\* C40: for every step history, the status and the error text pushed by
\* _finalize_task are the status and the error text of _summarize_status.
C40_SameOutcome ==
  Pushed =>
    /\ status_update.status = Summary.status
    /\ status_update.error_message = Summary.error

\* the two scans always agree on the status
C40_SameStatus == Pushed => status_update.status = Summary.status
\* and on the error text when at most one step failed or a step was halted
C40_SameErrorUpToOneFailure ==
  Pushed /\ (HaltedSteps # {} \/ Cardinality(FailedSteps) <= 1) =>
    status_update.error_message = Summary.error
\* two failed steps: the backend holds the error of the last, the operator
\* reads the error of the first
C40_TwoFailures ==
  /\ Pushed
  /\ Len(steps) = 2
  /\ ~steps[1].result.success /\ ~steps[1].result.halted /\ steps[1].result.error = "e1"
  /\ ~steps[2].result.success /\ ~steps[2].result.halted /\ steps[2].result.error = "e2"
  /\ status_update.error_message = "e2"
  /\ Summary.error = "e1"

====
